---- MODULE Spec2Model ----
(***************************************************************************)
(* Dialogue Delivery Engine of the quest platform: gate evaluation,        *)
(* thread traversal, thread visibility and the three scheduler jobs.       *)
(*                                                                         *)
(* Conventions.  Python's None and every other falsy id are the id 0       *)
(* (NoId): the code only ever tests ids for truthiness.  A timestamp       *)
(* string is a record [k, t]: k says what kind of JSON value is stored     *)
(* and t is the wall-clock reading it spells (see FromIsoFormat).  The     *)
(* clock `now` counts abstract time units.                                 *)
(***************************************************************************)
EXTENDS Integers, Sequences, FiniteSets, Bags, TLC

VARIABLES
    now,            \* datetime.now(timezone.utc)
    messages,       \* dialogue_messages: id -> row
    team_progress,  \* teams.team_progress["dialogue_overrides"]: team -> thread key -> bag
    replies,        \* dialogue_replies, in insertion order
    visits,         \* station_visits with state "finished": team -> set of station ids
    gate,           \* outcome of the last _check_conditions call: [m, p, out]
    walk,           \* the dialogue_view call in progress: its locals and its response
    threads,        \* dialogue_threads: id -> [type, target_roles]
    start_configs,  \* dialogue_start_configs: set of rows
    unlocks,        \* dialogue_thread_unlocks: <<thread, team>> -> number of rows
    triggers,       \* dialogue_transition_triggers: bag of rows
    deliveries,     \* dialogue_scheduled_deliveries: bag of <<message, team>>
    sent_push,      \* notify_dialogue_message calls made: bag of <<player, message>>
    tg,             \* Telegram: the bot token setting, the pushes that got through,
                    \* and the calls of the latest sending step of the push job
    push,           \* process_scheduled_dialogues: its locals and its session
    sent_unlock,    \* notify_dialogue_unlocked calls made: bag of <<player, thread>>
    starts,         \* process_dialogue_starts: its locals and its session
    trans,          \* process_dialogue_transitions: its locals and its session
    admin,          \* admin_trigger_dialogue_start: its locals and its session
    resp,           \* the last response of dialogue_reply or of the thread list
    graph,          \* the last authoring call of the admin (graph save, thread
                    \* deletion) and the last id the message sequence handed out
    consumed,       \* history: the transitions the transitions job has consumed
    views           \* the trigger block of the dialogue_view calls in flight:
                    \* player -> [pc, todo, row]

\* the tables only the unlock paths write, and the unlock paths
unlockVars == <<start_configs, unlocks, sent_unlock, starts, trans, admin>>

\* the scheduled-push job and its table
pushVars == <<deliveries, sent_push, push, tg>>

\* what the traversal handlers leave alone, triggers apart
schedVars == <<threads, unlockVars, pushVars>>

vars == <<now, messages, team_progress, replies, visits, gate, walk, triggers, schedVars,
          resp, consumed, graph, views>>

----------------------------------------------------------------------------
(* Bounds *)

MaxTime == 3
MaxReplies == 1
MaxRuns == 2

\* replies one player posts in SpecReply
MaxHistory == 2

\* offset of settings.event_timezone (Europe/Moscow) from UTC, in time units
EventTzOffset == 3

----------------------------------------------------------------------------
(* The fixed world: one event, its teams, players and threads *)

NoId == 0

Teams == {1, 2}

\* players.id -> (team_id, role, tg_id); role is the raw stored string
Players ==
    [p \in {1, 2, 3} |->
        CASE p = 1 -> [team_id |-> 1, role |-> "ROLE_A", tg_id |-> 101]
          [] p = 2 -> [team_id |-> 1, role |-> "B", tg_id |-> 102]
          [] p = 3 -> [team_id |-> 2, role |-> "None", tg_id |-> 103]]

PlayerIds == DOMAIN Players

\* dialogue_threads.id; the thread's key is spelled by its id
Threads == {1, 2}

Stations == {7, 8}

----------------------------------------------------------------------------
(* Timestamps as stored in JSON *)

\* kinds of stored value: absent key / None; ""; a string that is no ISO
\* date; a JSON number; an ISO string without offset; an ISO string ending
\* in Z or +00:00; an ISO string with offset +01:00; "naive" is the 16
\* character form of a datetime-local input, "naive_s" the form with seconds
TsKinds == {"none", "empty", "text", "num", "naive", "naive_s", "utc", "plus1"}

NoneTs == [k |-> "none", t |-> 0]

Ts(k, t) == [k |-> k, t |-> t]

\* Python truthiness of the stored value
Truthy(ts) == ts.k \notin {"none", "empty"}

\* datetime.fromisoformat(s.replace("Z", "+00:00")), then tzinfo=None is read
\* as UTC.  ok = FALSE stands for the exception (ValueError for a bad string,
\* AttributeError for a value with no .replace).
FromIsoFormat(ts) ==
    CASE ts.k = "naive" -> [ok |-> TRUE, utc |-> ts.t]
      [] ts.k = "naive_s" -> [ok |-> TRUE, utc |-> ts.t]
      [] ts.k = "utc"   -> [ok |-> TRUE, utc |-> ts.t]
      [] ts.k = "plus1" -> [ok |-> TRUE, utc |-> ts.t - 1]
      [] OTHER          -> [ok |-> FALSE, utc |-> 0]

----------------------------------------------------------------------------
(* Gate rules and override bags *)

NoRules == [condition_type |-> "unset", scheduled_at |-> NoneTs,
            station_id |-> NoId, after_message_id |-> NoId]

Rule(ct, sa, sid, amid) ==
    [condition_type |-> ct, scheduled_at |-> sa,
     station_id |-> sid, after_message_id |-> amid]

Immediate == Rule("immediate", NoneTs, NoId, NoId)

\* an absent thread entry and an empty bag read the same
\* ((overrides.get(thread_key) or {}), .get("force_reveal_message_ids") or [])
NoOverride == [hold_until |-> NoneTs, force_reveal_message_ids |-> {}]

\* payload["trigger_dialogue"]: thread_key NoId when the node carries none
NoTrigger == [thread_key |-> NoId, delay_minutes |-> 0]

\* DialogueMessage row; reply_options is the list of the options'
\* next_message_id, reply_texts the list of their texts (authors label the
\* options of every node alike: the i-th button reads i)
MsgT(thread, audience, order, opts, rules, trig) ==
    [thread_id |-> thread, audience |-> audience, order_index |-> order,
     reply_options |-> opts, reply_texts |-> [i \in 1..Len(opts) |-> i],
     gate_rules |-> rules, trigger_dialogue |-> trig]

Msg(thread, audience, order, opts, rules) ==
    MsgT(thread, audience, order, opts, rules, NoTrigger)

\* dialogue_threads row: type and config["target_roles"] ({} when not set)
Thread(type) == [type |-> type, target_roles |-> {}]

\* a thread whose config carries target_roles
ThreadFor(type, target_roles) == [type |-> type, target_roles |-> target_roles]

\* _normalize_role
NormalizeRole(role) ==
    IF role = "None" THEN "ROLE_A"
    ELSE IF role \in {"B", "ROLE_B"} THEN "ROLE_B" ELSE "ROLE_A"

\* replied_ids of dialogue_view: the messages the player has a Reply row for
RepliedIds(p) ==
    {replies[i].message_id : i \in {j \in 1..Len(replies) : replies[j].player_id = p}}

----------------------------------------------------------------------------
(* Gate Evaluator: _check_conditions *)

\* HoldActive with the comparison `<=` in place of `<`
HoldActiveInclusive(thr_over, clock) ==
    /\ Truthy(thr_over.hold_until)
    /\ FromIsoFormat(thr_over.hold_until).ok
    /\ clock <= FromIsoFormat(thr_over.hold_until).utc

\* the hold branch: hold_until set, parseable and still in the future; an
\* unparseable value is swallowed by `except Exception: pass`
HoldActive(thr_over, clock) ==
    /\ Truthy(thr_over.hold_until)
    /\ FromIsoFormat(thr_over.hold_until).ok
    /\ clock < FromIsoFormat(thr_over.hold_until).utc

\* ScheduledGate with the comparison `>` in place of `>=`
ScheduledGateStrict(rules, clock) ==
    IF ~Truthy(rules.scheduled_at) THEN "True"
    ELSE IF FromIsoFormat(rules.scheduled_at).ok
         THEN (IF clock > FromIsoFormat(rules.scheduled_at).utc THEN "True" ELSE "False")
         ELSE "True"

\* ScheduledGate whose except branch returns False
ScheduledGateFailClosed(rules, clock) ==
    IF ~Truthy(rules.scheduled_at) THEN "True"
    ELSE IF FromIsoFormat(rules.scheduled_at).ok
         THEN (IF clock >= FromIsoFormat(rules.scheduled_at).utc THEN "True" ELSE "False")
         ELSE "False"

\* ct == "scheduled"
ScheduledGate(rules, clock) ==
    IF ~Truthy(rules.scheduled_at) THEN "True"
    ELSE IF FromIsoFormat(rules.scheduled_at).ok
         THEN (IF clock >= FromIsoFormat(rules.scheduled_at).utc THEN "True" ELSE "False")
         ELSE "True"

\* AfterStationGate that opens on any finished visit of the team
AfterStationGateAnyVisit(rules, visited_station_ids) ==
    IF rules.station_id # NoId
    THEN (IF visited_station_ids # {} THEN "True" ELSE "False")
    ELSE "True"

\* ct == "after_station"
AfterStationGate(rules, visited_station_ids) ==
    IF rules.station_id # NoId
    THEN (IF rules.station_id \in visited_station_ids THEN "True" ELSE "False")
    ELSE "True"

\* ct == "after_message"
AfterMessageGate(rules, replied_ids) ==
    IF rules.after_message_id # NoId
    THEN (IF rules.after_message_id \in replied_ids THEN "True" ELSE "False")
    ELSE "True"

\* the part of _check_conditions after the override block
GateKind(rules, replied_ids, visited_station_ids, clock) ==
    CASE rules.condition_type \in {"immediate", "unset"} -> "True"
      [] rules.condition_type = "scheduled" -> ScheduledGate(rules, clock)
      [] rules.condition_type = "after_station" -> AfterStationGate(rules, visited_station_ids)
      [] rules.condition_type = "after_message" -> AfterMessageGate(rules, replied_ids)
      [] OTHER -> "True"

\* _check_conditions with the hold test placed before the force-reveal test
CheckConditionsHoldFirst(mid, replied_ids, visited_station_ids, progress, thread_key, clock) ==
    LET thr_over == progress[thread_key] IN
    IF HoldActive(thr_over, clock) THEN "False"
    ELSE IF mid \in thr_over.force_reveal_message_ids THEN "True"
    ELSE GateKind(messages[mid].gate_rules, replied_ids, visited_station_ids, clock)

\* _check_conditions(m, ..., replied_ids, visited_station_ids, team_progress, thread_key);
\* progress is the team's dialogue_overrides, the result is "True", "False"
\* or "Raise" (an exception leaving the function)
CheckConditions(mid, replied_ids, visited_station_ids, progress, thread_key, clock) ==
    LET thr_over == progress[thread_key] IN
    IF mid \in thr_over.force_reveal_message_ids THEN "True"
    ELSE IF HoldActive(thr_over, clock) THEN "False"
    ELSE GateKind(messages[mid].gate_rules, replied_ids, visited_station_ids, clock)

----------------------------------------------------------------------------
(* Threads as graphs of messages *)

\* thread.messages
ThreadMessages(key) == {m \in DOMAIN messages : messages[m].thread_id = key}

\* the option targets that are truthy, in order
RECURSIVE SelectTargets(_)
SelectTargets(opts) ==
    IF opts = <<>> THEN <<>>
    ELSE (IF Head(opts) # NoId THEN <<Head(opts)>> ELSE <<>>) \o SelectTargets(Tail(opts))

\* opts = [o for o in reply_options if o.get("next_message_id")]
TargetedOptions(mid) == SelectTargets(messages[mid].reply_options)

SeqRange(q) == {q[i] : i \in 1..Len(q)}

\* sequences that list every element of S once
Orders(S) == {q \in [1..Cardinality(S) -> S] : \A x \in S : \E i \in DOMAIN q : q[i] = x}

\* the chain dialogue_reply renders after next_msg: it follows the sole
\* targeted option of each message while the target is a message of the
\* thread.  The loop keeps no record of the messages it has passed: on a
\* cycle of such messages it never ends (ok = FALSE)
RECURSIVE ChainFrom(_, _, _)
ChainFrom(key, curr, passed) ==
    LET opts == TargetedOptions(curr) IN
    IF Len(opts) # 1 \/ opts[1] \notin ThreadMessages(key)
    THEN [ok |-> TRUE, chain |-> <<curr>>]
    ELSE IF opts[1] \in passed \cup {curr} THEN [ok |-> FALSE, chain |-> <<>>]
    ELSE LET rest == ChainFrom(key, opts[1], passed \cup {curr})
         IN [ok |-> rest.ok, chain |-> IF rest.ok THEN <<curr>> \o rest.chain ELSE <<>>]

\* sorted(thread.messages, key=(order_index, id)) as the list of
\* (message, option index) pairs the text search of dialogue_reply walks
Before(m1, i1, m2, i2) ==
    \/ messages[m1].order_index < messages[m2].order_index
    \/ messages[m1].order_index = messages[m2].order_index /\ m1 < m2
    \/ m1 = m2 /\ i1 < i2

\* the options of the thread whose text is the posted one and whose target
\* is a stored message
TextHits(key, message) ==
    {h \in UNION {{<<m, i>> : i \in DOMAIN messages[m].reply_options} :
                    m \in ThreadMessages(key)} :
        /\ messages[h[1]].reply_texts[h[2]] = message
        /\ messages[h[1]].reply_options[h[2]] # NoId
        /\ messages[h[1]].reply_options[h[2]] \in DOMAIN messages}

----------------------------------------------------------------------------
(* Handlers shared by the specifications *)

NoGate == [m |-> NoId, p |-> NoId, out |-> "None"]

\* no dialogue_view call in progress
Idle == [pc |-> "idle", p |-> NoId, key |-> NoId, status |-> 0, queue |-> <<>>,
         visited |-> {}, visible |-> <<>>, pending |-> NoId, by_msg |-> <<>>]

NoUnlocks == [k \in Threads \X Teams |-> 0]

\* process_scheduled_dialogues not running: rows are the messages of the
\* run still to handle, cur the one in hand, teams its teams still to handle,
\* added the rows of the session not yet committed
\* settings.telegram_bot_token set or empty; ok: the pushes Telegram accepted,
\* bag of <<player, message>>; at, log: the (message, team) of the latest
\* sending step and its calls as <<transport outcome, result>>
Telegram(token) == [token |-> token, ok |-> EmptyBag, at |-> <<NoId, NoId>>, log |-> {}]

PushIdle == [pc |-> "idle", now |-> 0, runs |-> 0, rows |-> {}, cur |-> NoId,
             teams |-> {}, added |-> EmptyBag]

\* DialogueStartConfig row; start_at is [ok, utc], ok = FALSE for NULL
Config(id, thread_id, start_at, target_type, target_team_ids) ==
    [id |-> id, thread_id |-> thread_id, start_at |-> start_at,
     target_type |-> target_type, target_team_ids |-> target_team_ids]

NoConfig == Config(NoId, NoId, [ok |-> FALSE, utc |-> 0], "all", <<>>)

\* process_dialogue_starts not running: rows are the configs of the run
\* still to handle, cur the one in hand, team_ids its teams still to handle,
\* added the unlock rows of the session not yet committed
StartsIdle == [pc |-> "idle", rows |-> {}, cur |-> NoConfig,
               team_ids |-> <<>>, added |-> EmptyBag]

\* DialogueTransitionTrigger row
NoRow == [team_id |-> NoId, source_message_id |-> NoId,
          target_thread_id |-> NoId, unlock_at |-> 0]

\* process_dialogue_transitions not running: rows are the triggers of the
\* run still to handle, cur the one in hand, add says whether the session
\* holds an unlock row for it
TransIdle == [pc |-> "idle", rows |-> EmptyBag, cur |-> NoRow, add |-> FALSE]

\* no admin_trigger_dialogue_start call in progress
AdminIdle == [pc |-> "idle", thread_id |-> NoId, team_ids |-> <<>>, added |-> EmptyBag]

\* no response yet
NoResp == [kind |-> "none", p |-> NoId, key |-> NoId, chain |-> <<>>, threads |-> {}]

\* no authoring call made; last_id is the last value of the sequence behind
\* dialogue_messages.id
NoCall(last_id) ==
    [op |-> "none", thread_id |-> NoId, out |-> "none", nodes |-> <<>>,
     id_map |-> <<>>, created |-> <<>>, before |-> {}, last_id |-> last_id]

\* no start rule, no unlock, no trigger, no delivery, no job running, no
\* response, no authoring call
\* no dialogue_view call is in its trigger block
ViewIdle == [pc |-> "idle", todo |-> <<>>, row |-> NoRow]

NoViews == [p \in PlayerIds |-> ViewIdle]

TablesInit ==
    /\ graph = NoCall(NoId)
    /\ views = NoViews
    /\ resp = NoResp
    /\ consumed = {}
    /\ sent_unlock = EmptyBag
    /\ starts = StartsIdle
    /\ trans = TransIdle
    /\ admin = AdminIdle
    /\ start_configs = {}
    /\ unlocks = NoUnlocks
    /\ triggers = EmptyBag
    /\ deliveries = EmptyBag
    /\ sent_push = EmptyBag
    /\ push = PushIdle

\* the tables empty, the bot token configured
SchedInit == TablesInit /\ tg = Telegram(TRUE)

\* the clock advances
Tick ==
    /\ walk.pc = "idle"
    /\ now < MaxTime
    /\ now' = now + 1
    /\ gate' = NoGate
    /\ UNCHANGED <<views, resp, consumed, messages, graph, team_progress, replies, visits, walk, triggers, schedVars>>

\* admin_quest_control_save: hold_until and force_reveal_ids are the form
\* fields (kind "empty" / the empty set: field left blank)
AdminQuestControlSave(team_id, thread_key, hold_until, force_reveal_ids, clear_hold, clear_force) ==
    LET thr == team_progress[team_id][thread_key]
        val == IF hold_until.k = "naive" THEN Ts("utc", hold_until.t) ELSE hold_until
        hold == IF clear_hold THEN NoneTs
                ELSE IF Truthy(hold_until) THEN val ELSE thr.hold_until
        force == IF clear_force THEN {}
                 ELSE IF force_reveal_ids # {} THEN force_reveal_ids
                 ELSE thr.force_reveal_message_ids
    IN /\ walk.pc = "idle"
       /\ team_progress' = [team_progress EXCEPT ![team_id][thread_key] =
                                [hold_until |-> hold, force_reveal_message_ids |-> force]]
       /\ gate' = NoGate
       /\ UNCHANGED <<views, resp, consumed, now, messages, graph, replies, visits, walk, triggers, schedVars>>

\* visit_finish: the visit of the team at the station becomes "finished"
VisitFinish(team_id, station_id) ==
    /\ walk.pc = "idle"
    /\ station_id \notin visits[team_id]
    /\ visits' = [visits EXCEPT ![team_id] = @ \cup {station_id}]
    /\ gate' = NoGate
    /\ UNCHANGED <<views, resp, consumed, now, messages, graph, team_progress, replies, walk, triggers, schedVars>>

\* a repeated reply replaces the player's earlier row for the message
StoreReplyUpsert(rows, row) ==
    Append(SelectSeq(rows, LAMBDA r : ~(r.player_id = row.player_id
                                        /\ r.message_id = row.message_id)), row)

\* db.add(reply): the table is only ever appended to
StoreReply(rows, row) == Append(rows, row)

\* DialogueReply row; replied_at is the server's clock at the insert
ReplyRow(p, message_id, next_message_id) ==
    [player_id |-> p, message_id |-> message_id,
     next_message_id |-> next_message_id, replied_at |-> now]

\* dialogue_reply.  With both ids posted, the source is looked up among the
\* event's messages and the target among the thread's; the row is stored
\* when both exist, and the target's chain is the response whenever the
\* target exists (a chain that never ends leaves no row and no response).
\* Otherwise the first option of the thread, in (order_index, id) order,
\* whose text is the posted one and whose target exists is stored and shown.
DialogueReply(p, key, message, message_id, next_message_id) ==
    /\ walk.pc = "idle"
    /\ LET both == message_id # NoId /\ next_message_id # NoId
           msg == both /\ message_id \in DOMAIN messages
           next_msg == both /\ next_message_id \in ThreadMessages(key)
           ch == ChainFrom(key, next_message_id, {})
           hits == TextHits(key, message)
           hit == CHOOSE h \in hits : \A g \in hits : g = h \/ Before(h[1], h[2], g[1], g[2])
       IN IF next_msg
          THEN IF ch.ok
               THEN /\ replies' = IF msg THEN StoreReply(replies, ReplyRow(p, message_id, next_message_id))
                                  ELSE replies
                    /\ resp' = [NoResp EXCEPT !.kind = "reply", !.p = p, !.key = key, !.chain = ch.chain]
               ELSE /\ replies' = replies
                    /\ resp' = [NoResp EXCEPT !.kind = "error", !.p = p, !.key = key]
          ELSE IF hits # {}
               THEN /\ replies' = StoreReply(replies, ReplyRow(p, hit[1], messages[hit[1]].reply_options[hit[2]]))
                    /\ resp' = [NoResp EXCEPT !.kind = "reply", !.p = p, !.key = key,
                                              !.chain = <<messages[hit[1]].reply_options[hit[2]]>>]
               ELSE /\ replies' = replies
                    /\ resp' = [NoResp EXCEPT !.kind = "reply", !.p = p, !.key = key]
    /\ gate' = NoGate
    /\ UNCHANGED <<views, consumed, now, messages, graph, team_progress, visits, walk, triggers, schedVars>>

\* one call check(m) of dialogue_view for player p
EvalGate(p, mid) ==
    /\ gate' = [m |-> mid, p |-> p,
                out |-> CheckConditions(mid, RepliedIds(p), visits[Players[p].team_id],
                                        team_progress[Players[p].team_id],
                                        messages[mid].thread_id, now)]
    /\ UNCHANGED <<views, resp, consumed, now, messages, graph, team_progress, replies, visits, walk, triggers, schedVars>>

----------------------------------------------------------------------------
(* SpecGate: the Gate Evaluator on every rule, override bag and context *)

SchedInputs ==
    {NoneTs, Ts("empty", 0), Ts("text", 0), Ts("num", 0),
     Ts("naive", 1), Ts("utc", 2), Ts("plus1", 3)}

GateRuleInputs ==
    {NoRules, Immediate, Rule("bogus", NoneTs, NoId, NoId)}
    \cup {Rule("scheduled", sa, NoId, NoId) : sa \in SchedInputs}
    \cup {Rule("after_station", NoneTs, s, NoId) : s \in {NoId, 7, 8}}
    \cup {Rule("after_message", NoneTs, NoId, a) : a \in {NoId, 1, 2}}

HoldInputs ==
    {Ts("empty", 0), Ts("text", 0), Ts("naive", 1), Ts("utc", 2), Ts("plus1", 3),
     Ts("naive_s", 2)}

ForceInputs == {{}, {1}, {1, 2}}

NoProgress == [t \in Teams |-> [k \in Threads |-> NoOverride]]

InitGate ==
    /\ now = 0
    /\ \E gr \in GateRuleInputs :
          messages = (1 :> Msg(1, "TEAM", 0, <<2>>, gr) @@ 2 :> Msg(1, "TEAM", 1, <<>>, Immediate))
    /\ team_progress = NoProgress
    /\ replies = <<>>
    /\ visits = [t \in Teams |-> {}]
    /\ gate = NoGate
    /\ walk = Idle
    /\ threads = (1 :> Thread("LEAKED") @@ 2 :> Thread("INTERACTIVE"))
    /\ SchedInit

NextGate ==
    \/ Tick
    \/ \E h \in HoldInputs, f \in ForceInputs, ch \in BOOLEAN, cf \in BOOLEAN :
          AdminQuestControlSave(1, 1, h, f, ch, cf)
    \/ VisitFinish(1, 7)
    \/ \E m \in {1, 2} : Len(replies) < MaxReplies /\ DialogueReply(1, 1, 1, m, 2)
    \/ \E m \in {1, 2} : EvalGate(1, m)

SpecGate == InitGate /\ [][NextGate]_vars

----------------------------------------------------------------------------
(* Visibility/Unlock Resolver *)

\* _get_dialogue_visibility: (with_config, unlocked)
WithConfig == {c.thread_id : c \in start_configs}

Unlocked(team_id) == {th \in Threads : unlocks[<<th, team_id>>] > 0}

\* str.upper() on the type names an author can store
Upper(type) ==
    CASE type = "interactive" -> "INTERACTIVE"
      [] type = "leaked" -> "LEAKED"
      [] OTHER -> type

\* _thread_visible that applies the LEAKED rule to every thread
ThreadVisibleLeakedRule(thread_id, team_id) ==
    thread_id \notin WithConfig \/ thread_id \in Unlocked(team_id)

\* _thread_visible
ThreadVisible(thread_id, team_id) ==
    IF Upper(threads[thread_id].type) = "INTERACTIVE"
    THEN thread_id \in WithConfig /\ thread_id \in Unlocked(team_id)
    ELSE thread_id \notin WithConfig \/ thread_id \in Unlocked(team_id)

\* _thread_has_content_for_role without the target_roles test
ThreadHasContentForRoleUnrestricted(key, role) ==
    \E m \in ThreadMessages(key) : messages[m].audience \in {"TEAM", role}

\* _thread_has_content_for_role
ThreadHasContentForRole(key, role) ==
    /\ threads[key].target_roles # {} => role \in threads[key].target_roles
    /\ \E m \in ThreadMessages(key) : messages[m].audience \in {"TEAM", role}

----------------------------------------------------------------------------
(* Traversal Engine: dialogue_view *)

\* incoming[mid]: the messages of the thread with an option that targets mid
Incoming(key, mid) ==
    {m \in ThreadMessages(key) : mid \in SeqRange(TargetedOptions(m))}

\* the message of S with the least order_index
MinOrder(S) == CHOOSE m \in S : \A x \in S : messages[m].order_index <= messages[x].order_index

\* start_id
StartId(key) ==
    LET start_candidates == {m \in ThreadMessages(key) : Incoming(key, m) = {}}
    IN IF start_candidates # {} THEN MinOrder(start_candidates)
       ELSE MinOrder(ThreadMessages(key))

\* the Reply rows of player p, in the order they were inserted
PlayerRows(p) == SelectSeq(replies, LAMBDA r : r.player_id = p)

\* r_replies.all(): the query has no ORDER BY, so the rows come in an order
\* the database chooses
QueryOrders(p) ==
    {[i \in 1..Len(PlayerRows(p)) |-> PlayerRows(p)[f[i]]] :
        f \in Orders(1..Len(PlayerRows(p)))}

\* replies_by_msg: each row overwrites the entry of its message, so the last
\* row the query returns for a message decides
RECURSIVE FoldReplies(_, _)
FoldReplies(rows, acc) ==
    IF rows = <<>> THEN acc
    ELSE FoldReplies(Tail(rows),
                     [m \in DOMAIN acc \cup {Head(rows).message_id} |->
                         IF m = Head(rows).message_id THEN Head(rows).next_message_id
                         ELSE acc[m]])

RepliesByMsg(rows) == FoldReplies(rows, <<>>)

\* replies_by_msg.get(mid)
ByMsgGet(by_msg, mid) == IF mid \in DOMAIN by_msg THEN by_msg[mid] ELSE NoId

\* NodeShown without the audience test
NodeShownAnyAudience(w, mid) ==
    /\ mid \in ThreadMessages(w.key)
    /\ CheckConditions(mid, RepliedIds(w.p), visits[Players[w.p].team_id],
                       team_progress[Players[w.p].team_id], w.key, now) = "True"

\* check(m) and the audience test of the loop
NodeShown(w, mid) ==
    /\ mid \in ThreadMessages(w.key)
    /\ messages[mid].audience \in {"TEAM", NormalizeRole(Players[w.p].role)}
    /\ CheckConditions(mid, RepliedIds(w.p), visits[Players[w.p].team_id],
                       team_progress[Players[w.p].team_id], w.key, now) = "True"

\* queue.insert(0, next_id) unless next_id was visited
PushFront(queue, visited, next_id) ==
    IF next_id \notin visited THEN <<next_id>> \o queue ELSE queue

\* WalkIteration that asks for a reply at a node with a single option too
WalkIterationStopAtSingle(w) ==
    LET mid == Head(w.queue)
        rest == Tail(w.queue)
        seen == w.visited \cup {mid}
        opts == TargetedOptions(mid)
        chosen == ByMsgGet(w.by_msg, mid)
    IN IF mid \in w.visited THEN [w EXCEPT !.queue = rest]
       ELSE IF ~NodeShown(w, mid) THEN [w EXCEPT !.queue = rest, !.visited = seen]
       ELSE IF Len(opts) = 0
            THEN [w EXCEPT !.queue = rest, !.visited = seen, !.visible = Append(@, mid)]
       ELSE IF mid \in RepliedIds(w.p) /\ chosen # NoId
            THEN [w EXCEPT !.queue = IF chosen \in ThreadMessages(w.key)
                                     THEN PushFront(rest, seen, chosen) ELSE rest,
                           !.visited = seen, !.visible = Append(@, mid)]
       ELSE [w EXCEPT !.pc = "done", !.queue = rest, !.visited = seen,
                      !.visible = Append(@, mid), !.pending = mid]

\* WalkIteration that marks the pending node and walks on through its first
\* option instead of leaving the loop
WalkIterationNoBreak(w) ==
    LET mid == Head(w.queue)
        rest == Tail(w.queue)
        seen == w.visited \cup {mid}
        opts == TargetedOptions(mid)
        chosen == ByMsgGet(w.by_msg, mid)
    IN IF mid \in w.visited THEN [w EXCEPT !.queue = rest]
       ELSE IF ~NodeShown(w, mid) THEN [w EXCEPT !.queue = rest, !.visited = seen]
       ELSE IF Len(opts) = 0
            THEN [w EXCEPT !.queue = rest, !.visited = seen, !.visible = Append(@, mid)]
       ELSE IF Len(opts) = 1
            THEN [w EXCEPT !.queue = PushFront(rest, seen, opts[1]), !.visited = seen,
                           !.visible = Append(@, mid)]
       ELSE IF mid \in RepliedIds(w.p) /\ chosen # NoId
            THEN [w EXCEPT !.queue = IF chosen \in ThreadMessages(w.key)
                                     THEN PushFront(rest, seen, chosen) ELSE rest,
                           !.visited = seen, !.visible = Append(@, mid)]
       ELSE [w EXCEPT !.queue = PushFront(rest, seen, opts[1]), !.visited = seen,
                      !.visible = Append(@, mid), !.pending = mid]

\* WalkIteration that goes on through a node it does not show: the first
\* target of the skipped node is queued
WalkIterationThroughHidden(w) ==
    LET mid == Head(w.queue)
        rest == Tail(w.queue)
        seen == w.visited \cup {mid}
        opts == IF mid \in ThreadMessages(w.key) THEN TargetedOptions(mid) ELSE <<>>
        chosen == ByMsgGet(w.by_msg, mid)
    IN IF mid \in w.visited THEN [w EXCEPT !.queue = rest]
       ELSE IF ~NodeShown(w, mid)
            THEN [w EXCEPT !.queue = IF Len(opts) > 0 THEN PushFront(rest, seen, opts[1])
                                     ELSE rest,
                           !.visited = seen]
       ELSE IF Len(opts) = 0
            THEN [w EXCEPT !.queue = rest, !.visited = seen, !.visible = Append(@, mid)]
       ELSE IF Len(opts) = 1
            THEN [w EXCEPT !.queue = PushFront(rest, seen, opts[1]), !.visited = seen,
                           !.visible = Append(@, mid)]
       ELSE IF mid \in RepliedIds(w.p) /\ chosen # NoId
            THEN [w EXCEPT !.queue = IF chosen \in ThreadMessages(w.key)
                                     THEN PushFront(rest, seen, chosen) ELSE rest,
                           !.visited = seen, !.visible = Append(@, mid)]
       ELSE [w EXCEPT !.pc = "done", !.queue = rest, !.visited = seen,
                      !.visible = Append(@, mid), !.pending = mid]

\* WalkIteration without visited.add(mid)
WalkIterationNoVisited(w) ==
    LET mid == Head(w.queue)
        rest == Tail(w.queue)
        seen == w.visited
        opts == TargetedOptions(mid)
        chosen == ByMsgGet(w.by_msg, mid)
    IN IF mid \in w.visited THEN [w EXCEPT !.queue = rest]
       ELSE IF ~NodeShown(w, mid) THEN [w EXCEPT !.queue = rest, !.visited = seen]
       ELSE IF Len(opts) = 0
            THEN [w EXCEPT !.queue = rest, !.visited = seen, !.visible = Append(@, mid)]
       ELSE IF Len(opts) = 1
            THEN [w EXCEPT !.queue = PushFront(rest, seen, opts[1]), !.visited = seen,
                           !.visible = Append(@, mid)]
       ELSE IF mid \in RepliedIds(w.p) /\ chosen # NoId
            THEN [w EXCEPT !.queue = IF chosen \in ThreadMessages(w.key)
                                     THEN PushFront(rest, seen, chosen) ELSE rest,
                           !.visited = seen, !.visible = Append(@, mid)]
       ELSE [w EXCEPT !.pc = "done", !.queue = rest, !.visited = seen,
                      !.visible = Append(@, mid), !.pending = mid]

\* WalkIteration that walks every branch: at a node with several options and
\* no stored choice the targets of all options are queued
WalkIterationEveryBranch(w) ==
    LET mid == Head(w.queue)
        rest == Tail(w.queue)
        seen == w.visited \cup {mid}
        opts == TargetedOptions(mid)
        chosen == ByMsgGet(w.by_msg, mid)
    IN IF mid \in w.visited THEN [w EXCEPT !.queue = rest]
       ELSE IF ~NodeShown(w, mid) THEN [w EXCEPT !.queue = rest, !.visited = seen]
       ELSE IF Len(opts) = 0
            THEN [w EXCEPT !.queue = rest, !.visited = seen, !.visible = Append(@, mid)]
       ELSE IF Len(opts) = 1
            THEN [w EXCEPT !.queue = PushFront(rest, seen, opts[1]), !.visited = seen,
                           !.visible = Append(@, mid)]
       ELSE IF mid \in RepliedIds(w.p) /\ chosen # NoId
            THEN [w EXCEPT !.queue = IF chosen \in ThreadMessages(w.key)
                                     THEN PushFront(rest, seen, chosen) ELSE rest,
                           !.visited = seen, !.visible = Append(@, mid)]
       ELSE [w EXCEPT !.queue = opts \o rest, !.visited = seen,
                      !.visible = Append(@, mid)]

\* one iteration of `while queue:`; w.queue is not empty
WalkIteration(w) ==
    LET mid == Head(w.queue)
        rest == Tail(w.queue)
        seen == w.visited \cup {mid}
        opts == TargetedOptions(mid)
        chosen == ByMsgGet(w.by_msg, mid)
    IN IF mid \in w.visited THEN [w EXCEPT !.queue = rest]
       ELSE IF ~NodeShown(w, mid) THEN [w EXCEPT !.queue = rest, !.visited = seen]
       ELSE IF Len(opts) = 0
            THEN [w EXCEPT !.queue = rest, !.visited = seen, !.visible = Append(@, mid)]
       ELSE IF Len(opts) = 1
            THEN [w EXCEPT !.queue = PushFront(rest, seen, opts[1]), !.visited = seen,
                           !.visible = Append(@, mid)]
       ELSE IF mid \in RepliedIds(w.p) /\ chosen # NoId
            THEN [w EXCEPT !.queue = IF chosen \in ThreadMessages(w.key)
                                     THEN PushFront(rest, seen, chosen) ELSE rest,
                           !.visited = seen, !.visible = Append(@, mid)]
       ELSE [w EXCEPT !.pc = "done", !.queue = rest, !.visited = seen,
                      !.visible = Append(@, mid), !.pending = mid]

\* dialogue_view up to the loop: 403 for a thread that is not visible to the
\* team or has no content for the role, else the locals of the walk
WalkStart(p, key, rows) ==
    IF ThreadVisible(key, Players[p].team_id)
       /\ ThreadHasContentForRole(key, NormalizeRole(Players[p].role))
    THEN [Idle EXCEPT !.pc = "loop", !.p = p, !.key = key, !.status = 200,
                      !.queue = <<StartId(key)>>, !.by_msg = RepliesByMsg(rows)]
    ELSE [Idle EXCEPT !.pc = "done", !.p = p, !.key = key, !.status = 403]

\* dialogues_list (and the same filter of the index page): the threads listed
\* for player p
DialoguesList(p) ==
    /\ walk.pc = "idle"
    /\ resp' = [NoResp EXCEPT !.kind = "list", !.p = p,
                              !.threads = {t \in Threads :
                                  /\ ThreadVisible(t, Players[p].team_id)
                                  /\ ThreadHasContentForRole(t, NormalizeRole(Players[p].role))}]
    /\ UNCHANGED <<views, consumed, now, messages, graph, team_progress, replies, visits, gate, walk, triggers, schedVars>>

\* dialogue_view up to its loop
DialogueViewBegin(p, key) ==
    /\ walk.pc = "idle"
    /\ \E rows \in QueryOrders(p) : walk' = WalkStart(p, key, rows)
    /\ gate' = NoGate
    /\ UNCHANGED <<views, resp, consumed, now, messages, graph, team_progress, replies, visits, triggers, schedVars>>

\* the loop: one iteration, or its end on an empty queue
DialogueViewLoop ==
    /\ walk.pc = "loop"
    /\ walk' = IF walk.queue = <<>> THEN [walk EXCEPT !.pc = "done"]
               ELSE WalkIteration(walk)
    /\ UNCHANGED <<views, resp, consumed, now, messages, graph, team_progress, replies, visits, gate, triggers, schedVars>>

\* pending_reply_opts of the response
PendingReplyOpts(w) == IF w.pending # NoId THEN TargetedOptions(w.pending) ELSE <<>>

\* "pending_reply" of the response: pending_reply if pending_reply_opts else None
PendingReply(w) == IF PendingReplyOpts(w) # <<>> THEN w.pending ELSE NoId

\* the trigger rows dialogue_view adds for the emitted nodes: one for each
\* node with a trigger_dialogue whose target thread exists, is another thread
\* and has no row yet for (team, node, target)
NewTriggers(w) ==
    LET team_id == Players[w.p].team_id
        row(m) == [team_id |-> team_id, source_message_id |-> m,
                   target_thread_id |-> messages[m].trigger_dialogue.thread_key,
                   unlock_at |-> now + messages[m].trigger_dialogue.delay_minutes]
        exists(m) == \E r \in BagToSet(triggers) :
                        /\ r.team_id = team_id
                        /\ r.source_message_id = m
                        /\ r.target_thread_id = messages[m].trigger_dialogue.thread_key
    IN {row(m) : m \in {x \in SeqRange(w.visible) :
                            /\ messages[x].trigger_dialogue.thread_key # NoId
                            /\ messages[x].trigger_dialogue.delay_minutes >= 0
                            /\ messages[x].trigger_dialogue.thread_key \in Threads
                            /\ messages[x].trigger_dialogue.thread_key # w.key
                            /\ ~exists(x)}}

\* the triggers table after dialogue_view's trigger block
TriggersAfter(w) ==
    IF w.status = 200 THEN triggers (+) SetToBag(NewTriggers(w)) ELSE triggers

\* dialogue_view after the loop: the transition triggers, then the response
DialogueViewEnd ==
    /\ walk.pc = "done"
    /\ triggers' = TriggersAfter(walk)
    /\ walk' = Idle
    /\ UNCHANGED <<views, resp, consumed, now, messages, graph, team_progress, replies, visits, gate, schedVars>>

----------------------------------------------------------------------------
(* SpecWalk: traversal of every authored graph of a three-node thread *)

\* the option lists a node is authored with (9 is no message)
OptInputs ==
    {<<>>, <<NoId>>, <<9>>, <<1>>, <<2>>, <<3>>,
     <<1, 2>>, <<1, 3>>, <<2, 3>>, <<3, 2>>, <<NoId, 2>>, <<2, 9>>, <<2, NoId, 3>>}

LastOptInputs == {<<>>, <<1>>, <<2>>}

\* audience and gate of the three nodes
NodeInputs ==
    {<<"TEAM", "TEAM", "TEAM">>, <<"TEAM", "ROLE_A", "TEAM">>, <<"TEAM", "ROLE_B", "TEAM">>,
     <<"ROLE_B", "TEAM", "TEAM">>, <<"TEAM", "TEAM", "ROLE_A">>}

StationGate == Rule("after_station", NoneTs, 7, NoId)

InitWalk ==
    /\ now = 0
    /\ \E o1 \in OptInputs, o2 \in OptInputs, o3 \in LastOptInputs, a \in NodeInputs,
          g \in {Immediate, StationGate} :
          messages = (1 :> Msg(1, a[1], 0, o1, Immediate)
                      @@ 2 :> Msg(1, a[2], 1, o2, g)
                      @@ 3 :> Msg(1, a[3], 2, o3, Immediate))
    /\ team_progress = NoProgress
    /\ replies = <<>>
    /\ visits = [t \in Teams |-> {}]
    /\ gate = NoGate
    /\ walk = Idle
    /\ threads = (1 :> Thread("LEAKED") @@ 2 :> Thread("INTERACTIVE"))
    /\ SchedInit

\* a reply the rendered thread offers: an option of a node with several
OfferedReply(p, m, n) ==
    /\ Len(replies) < MaxReplies
    /\ Len(TargetedOptions(m)) >= 2
    /\ n # NoId
    /\ \E i \in DOMAIN messages[m].reply_options :
        /\ messages[m].reply_options[i] = n
        /\ DialogueReply(p, 1, messages[m].reply_texts[i], m, n)

NextWalk ==
    \/ \E p \in {1, 2} : DialogueViewBegin(p, 1)
    \/ DialogueViewLoop
    \/ DialogueViewEnd
    \/ \E p \in {1, 2}, m \in 1..3, n \in 1..3 : OfferedReply(p, m, n)
    \/ VisitFinish(1, 7)

SpecWalk == InitWalk /\ [][NextWalk]_vars

----------------------------------------------------------------------------
(* SpecReply: every form a player can post to dialogue_reply, and the
   traversal over the history it leaves *)

\* thread 1: node 1 offers 2 and 3, which chain into each other or end;
\* node 4 is a message of thread 2
InitReply ==
    /\ now = 0
    /\ \E o2 \in {<<>>, <<3>>}, o3 \in {<<>>, <<2>>} :
          messages = (1 :> Msg(1, "TEAM", 0, <<2, 3>>, Immediate)
                      @@ 2 :> Msg(1, "TEAM", 1, o2, Immediate)
                      @@ 3 :> Msg(1, "TEAM", 2, o3, Immediate)
                      @@ 4 :> Msg(2, "TEAM", 0, <<>>, Immediate))
    /\ team_progress = NoProgress
    /\ replies = <<>>
    /\ visits = [t \in Teams |-> {}]
    /\ gate = NoGate
    /\ walk = Idle
    /\ threads = (1 :> Thread("LEAKED") @@ 2 :> Thread("LEAKED"))
    /\ SchedInit

\* the form fields are the client's: any text, any ids, or none
PostedReply ==
    \E message \in {1, 2, 5}, message_id \in {NoId, 1, 3, 4}, next_message_id \in {NoId, 2, 3, 4} :
        /\ Len(replies) < MaxHistory
        /\ DialogueReply(1, 1, message, message_id, next_message_id)

NextReply ==
    \/ Tick
    \/ PostedReply
    \/ DialogueViewBegin(1, 1)
    \/ DialogueViewLoop
    \/ DialogueViewEnd

SpecReply == InitReply /\ [][NextReply]_vars

----------------------------------------------------------------------------
(* SpecScene: the scenario thread of three messages. M1 = 1 (TEAM, immediate,
   one option to M2), M2 = 2 (ROLE_A, after station 7, two options to 4 and
   5), M3 = 3 referenced by no option. *)

\* the targets 4 and 5 of M2's options are messages of the thread or of
\* another thread; M3 is authored with any audience and may have an option
InitScene ==
    /\ now = 0
    /\ \E th \in Threads, a3 \in {"TEAM", "ROLE_A", "ROLE_B"}, o3 \in {<<>>, <<4>>} :
          messages = (1 :> Msg(1, "TEAM", 0, <<2>>, Immediate)
                      @@ 2 :> Msg(1, "ROLE_A", 1, <<4, 5>>, StationGate)
                      @@ 3 :> Msg(1, a3, 2, o3, Immediate)
                      @@ 4 :> Msg(th, "TEAM", 3, <<>>, Immediate)
                      @@ 5 :> Msg(th, "TEAM", 4, <<>>, Immediate))
    /\ team_progress = NoProgress
    /\ replies = <<>>
    /\ visits = [t \in Teams |-> {}]
    /\ gate = NoGate
    /\ walk = Idle
    /\ threads = (1 :> Thread("LEAKED") @@ 2 :> Thread("LEAKED"))
    /\ SchedInit

NextScene ==
    \/ \E p \in {1, 2} : DialogueViewBegin(p, 1)
    \/ DialogueViewLoop
    \/ DialogueViewEnd
    \/ \E p \in {1, 2}, n \in {4, 5} : OfferedReply(p, 2, n)
    \/ \E t \in Teams, st \in {7, 8} : VisitFinish(t, st)

SpecScene == InitScene /\ [][NextScene]_vars

----------------------------------------------------------------------------
(* Properties of the Gate Evaluator (SpecGate) *)

GateCalled == gate.m # NoId

\* the override bag, the rule and the context the recorded call was given
GateBag ==
    IF GateCalled THEN team_progress[Players[gate.p].team_id][messages[gate.m].thread_id]
    ELSE NoOverride

GateRules == IF GateCalled THEN messages[gate.m].gate_rules ELSE NoRules

GateForced == GateCalled /\ gate.m \in GateBag.force_reveal_message_ids

\* hold_until denotes a time and that time is still ahead
HoldInFuture == FromIsoFormat(GateBag.hold_until).ok /\ now < FromIsoFormat(GateBag.hold_until).utc

\* hold_until denotes a time and that time has been reached
HoldElapsed == FromIsoFormat(GateBag.hold_until).ok /\ now >= FromIsoFormat(GateBag.hold_until).utc

ScheduledInFuture ==
    /\ GateRules.condition_type = "scheduled"
    /\ FromIsoFormat(GateRules.scheduled_at).ok
    /\ now < FromIsoFormat(GateRules.scheduled_at).utc

\* C5: a message whose id is in the team's force-reveal set of its thread is
\* reported visible, whatever its gate kind and whether or not a hold is active.
C5_ForceRevealVisible == GateForced => gate.out = "True"

\* C5 witness: a force-revealed message with a scheduled time still ahead,
\* under an active hold, evaluated visible.
C5_Witness == GateForced /\ ScheduledInFuture /\ HoldInFuture /\ gate.out = "True"

\* C6: while hold_until is ahead every message that is not force-revealed is
\* reported not visible; once hold_until has been reached the outcome is the
\* one of the message's own gate rule.
C6_HoldSuppresses ==
    (GateCalled /\ ~GateForced) =>
        /\ HoldInFuture => gate.out = "False"
        /\ HoldElapsed => gate.out = GateKind(GateRules, RepliedIds(gate.p),
                                              visits[Players[gate.p].team_id], now)

\* C6 witness: an immediate message, not force-revealed, hidden by a hold that
\* is still ahead.
C6_Witness ==
    /\ GateCalled /\ ~GateForced /\ HoldInFuture
    /\ GateRules.condition_type = "immediate"
    /\ gate.out = "False"

\* a rule that carries what its kind refers to
WellFormed(rules) ==
    /\ rules.condition_type = "scheduled" => FromIsoFormat(rules.scheduled_at).ok
    /\ rules.condition_type = "after_station" => rules.station_id # NoId
    /\ rules.condition_type = "after_message" => rules.after_message_id # NoId

\* the reference of the gate kinds
RefVisible(rules, p) ==
    CASE rules.condition_type = "scheduled" -> now >= FromIsoFormat(rules.scheduled_at).utc
      [] rules.condition_type = "after_station" ->
            rules.station_id \in visits[Players[p].team_id]
      [] rules.condition_type = "after_message" ->
            \E i \in 1..Len(replies) :
                replies[i].player_id = p /\ replies[i].message_id = rules.after_message_id
      [] OTHER -> TRUE

\* C7: with no override active (not force-revealed, no hold ahead) the outcome
\* for a well-formed rule is the reference: immediate, unset and unrecognized
\* kinds visible; scheduled visible iff now >= its time; after_station visible
\* iff the station is among the team's finished visits; after_message visible
\* iff the player has replied to the referenced message.
C7_GateReference ==
    (GateCalled /\ ~GateForced /\ ~HoldInFuture /\ WellFormed(GateRules)) =>
        gate.out = (IF RefVisible(GateRules, gate.p) THEN "True" ELSE "False")

\* C7 witness: a scheduled message evaluated visible exactly at its time.
C7_Witness ==
    /\ GateCalled /\ ~GateForced /\ ~HoldInFuture
    /\ GateRules.condition_type = "scheduled"
    /\ FromIsoFormat(GateRules.scheduled_at).ok
    /\ now = FromIsoFormat(GateRules.scheduled_at).utc
    /\ gate.out = "True"

Malformed(rules) ==
    \/ rules.condition_type = "scheduled" /\ ~FromIsoFormat(rules.scheduled_at).ok
    \/ rules.condition_type = "after_station" /\ rules.station_id = NoId
    \/ rules.condition_type = "after_message" /\ rules.after_message_id = NoId

\* C8: no evaluation raises, and a malformed rule (scheduled with an absent or
\* unparseable time, after_station without station, after_message without
\* message) is reported visible when no hold is ahead.
C8_MalformedFailsOpen ==
    GateCalled =>
        /\ gate.out # "Raise"
        /\ (Malformed(GateRules) /\ ~HoldInFuture) => gate.out = "True"

\* C8 witness: a scheduled rule whose time is no ISO date, evaluated visible
\* while the bag holds an unparseable hold_until.
C8_Witness ==
    /\ GateCalled /\ ~GateForced
    /\ GateRules.condition_type = "scheduled"
    /\ GateRules.scheduled_at.k = "text"
    /\ GateBag.hold_until.k = "text"
    /\ gate.out = "True"

----------------------------------------------------------------------------
(* Properties of the Traversal Engine (SpecWalk) *)

\* the options of a message that carry a target
WithTarget(mid) == SelectSeq(messages[mid].reply_options, LAMBDA o : o # NoId)

Emitted == SeqRange(walk.visible)

\* C9: a node with exactly one targeted option is never the pending-choice
\* node, and once it is emitted the walk goes on to the option's target (the
\* target is the next node taken from the queue, or was taken before),
\* whether or not the player has replied.
C9_SingleOptionAdvances ==
    /\ walk.pending # NoId => Len(WithTarget(walk.pending)) # 1
    /\ \A m \in Emitted :
          Len(WithTarget(m)) = 1 =>
              \/ WithTarget(m)[1] \in walk.visited
              \/ walk.queue # <<>> /\ Head(walk.queue) = WithTarget(m)[1]

\* C9 witness: a finished walk of a player without any reply that emitted a
\* single-option node and, right after it, the option's target.
C9_Witness ==
    /\ walk.pc = "done" /\ replies = <<>>
    /\ \E i \in 1..Len(walk.visible) - 1 :
          /\ Len(WithTarget(walk.visible[i])) = 1
          /\ walk.visible[i + 1] = WithTarget(walk.visible[i])[1]

\* C10: an emitted node with two or more targeted options and no reply of the
\* player ends the walk: it is the pending-choice node of the response, the
\* last emitted node, and the options offered are its options with a target.
C10_PendingChoiceStops ==
    \A i \in 1..Len(walk.visible) :
        LET m == walk.visible[i] IN
        (Len(WithTarget(m)) >= 2
         /\ ~\E j \in 1..Len(replies) :
               replies[j].player_id = walk.p /\ replies[j].message_id = m) =>
            /\ walk.pc = "done"
            /\ walk.queue = <<>>
            /\ walk.pending = m
            /\ PendingReply(walk) = m
            /\ i = Len(walk.visible)
            /\ PendingReplyOpts(walk) = WithTarget(m)

\* C10 witness: a walk that auto-advanced to a branch node carrying an option
\* without target, and stopped there with the targeted options offered.
C10_Witness ==
    /\ walk.pc = "done" /\ walk.pending # NoId
    /\ Len(walk.visible) >= 2
    /\ walk.visible[Len(walk.visible)] = walk.pending
    /\ Len(messages[walk.pending].reply_options) = 3
    /\ Len(PendingReplyOpts(walk)) = 2

\* the nodes of the thread the loop has not visited, plus the queue length:
\* the quantity every iteration of `while queue:` lowers
WalkMeasure(w) ==
    IF w.key = NoId THEN 0
    ELSE Cardinality(ThreadMessages(w.key) \ w.visited) + Len(w.queue)

NoDuplicates(q) == \A i \in DOMAIN q, j \in DOMAIN q : q[i] = q[j] => i = j

\* C12: the loop of dialogue_view terminates on every graph and emits each
\* node at most once: every iteration that stays in the loop lowers a natural
\* number (unvisited nodes plus queue length), and the emitted list never
\* holds a node twice.
C12_WalkTerminates ==
    [][walk.pc = "loop" =>
          /\ walk'.pc \in {"loop", "done"}
          /\ walk'.pc = "loop" => WalkMeasure(walk') < WalkMeasure(walk)
          /\ NoDuplicates(walk'.visible)]_vars

\* C12 witness: a finished walk that emitted two nodes on a cycle (each
\* targets the other), the second of which targets itself as well.
C12_Witness ==
    /\ walk.pc = "done"
    /\ walk.status = 200
    /\ \E m \in SeqRange(walk.visible), n \in SeqRange(walk.visible) :
          /\ m # n
          /\ n \in SeqRange(TargetedOptions(m))
          /\ m \in SeqRange(TargetedOptions(n))
          /\ n \in SeqRange(TargetedOptions(n))

\* the role a player of normalized role r is not
OtherRole(r) == IF r = "ROLE_A" THEN "ROLE_B" ELSE "ROLE_A"

\* C13: neither the traversal nor the response to a reply gives a player a
\* message whose audience is the other role.
C13_RoleIsolation ==
    /\ walk.pc \in {"loop", "done"} =>
          \A m \in SeqRange(walk.visible) :
              messages[m].audience # OtherRole(NormalizeRole(Players[walk.p].role))
    /\ resp.kind = "reply" =>
          \A m \in SeqRange(resp.chain) :
              messages[m].audience # OtherRole(NormalizeRole(Players[resp.p].role))

----------------------------------------------------------------------------
(* Properties of the scenario thread (SpecScene) *)

\* a traversal of the thread by player p has left its loop
SceneDone(p) == walk.pc = "done" /\ walk.p = p /\ walk.status = 200

\* C14: for the ROLE_B player the traversal of the scenario thread returns
\* exactly [M1] and no pending choice, whatever stations the team finished.
C14_RoleBSeesOnlyM1 ==
    SceneDone(2) => walk.visible = <<1>> /\ PendingReply(walk) = NoId

\* C14 witness: the ROLE_B player's traversal ended after the team finished
\* station 7.
C14_Witness == SceneDone(2) /\ 7 \in visits[1] /\ walk.visible = <<1>>

\* C15: for the ROLE_A player, who has not yet answered M2, the traversal
\* returns [M1] and no pending choice while station 7 is not among the
\* team's finished visits, and [M1, M2] with M2 pending and both its options
\* offered once it is.
C15_RoleAGatedByStation ==
    (SceneDone(1) /\ 2 \notin RepliedIds(1)) =>
        IF 7 \in visits[1]
        THEN /\ walk.visible = <<1, 2>>
             /\ PendingReply(walk) = 2
             /\ PendingReplyOpts(walk) = <<4, 5>>
        ELSE /\ walk.visible = <<1>>
             /\ PendingReply(walk) = NoId

\* C15 witness: the ROLE_A player's traversal after station 7 was finished
\* stops at M2.
C15_Witness ==
    /\ SceneDone(1)
    /\ 7 \in visits[1]
    /\ 2 \notin RepliedIds(1)
    /\ walk.pending = 2

----------------------------------------------------------------------------
(* Properties of the Reply Recorder and of resumption (SpecReply) *)

\* the Reply rows of player p to message m
RowsTo(p, m) == SelectSeq(PlayerRows(p), LAMBDA r : r.message_id = m)

\* the targets of p's replies to m that carry the latest timestamp
LatestTargets(p, m) ==
    {RowsTo(p, m)[i].next_message_id :
        i \in {j \in DOMAIN RowsTo(p, m) :
                  \A k \in DOMAIN RowsTo(p, m) :
                      RowsTo(p, m)[k].replied_at <= RowsTo(p, m)[j].replied_at}}

\* C11: a traversal resumes a replied node through the target of the player's
\* most recent reply to it: whenever the latest timestamp names one target,
\* that target is the one the traversal holds for the node.
C11_MostRecentReplyWins ==
    (walk.pc \in {"loop", "done"} /\ walk.status = 200) =>
        \A m \in DOMAIN walk.by_msg :
            Cardinality(LatestTargets(walk.p, m)) = 1 =>
                walk.by_msg[m] \in LatestTargets(walk.p, m)

\* the row the step added, if it added one
AddedRow == replies'[Len(replies')]

\* C18: a step of dialogue_reply that stores a row stores a source message of
\* the addressed thread together with the target of one of its options.
C18_OnlyOfferedOptionStored ==
    [][Len(replies') > Len(replies) =>
          /\ messages[AddedRow.message_id].thread_id = resp'.key
          /\ AddedRow.next_message_id \in SeqRange(messages[AddedRow.message_id].reply_options)]_vars

\* C19: a step that changes the Reply table appends exactly one row and
\* leaves every earlier row, its target and timestamp included, as it was.
C19_RepliesAppendOnly ==
    [][replies' # replies =>
          /\ Len(replies') = Len(replies) + 1
          /\ SubSeq(replies', 1, Len(replies)) = replies]_vars

\* C19 witness: the player has replied twice to the same message, with
\* different targets, and both rows are on record.
C19_Witness ==
    \E i \in DOMAIN replies, j \in DOMAIN replies :
        /\ i < j
        /\ replies[i].player_id = replies[j].player_id
        /\ replies[i].message_id = replies[j].message_id
        /\ replies[i].next_message_id # replies[j].next_message_id
        /\ replies[i].replied_at < replies[j].replied_at

----------------------------------------------------------------------------
(* Scheduled-push job: process_scheduled_dialogues *)

\* _parse_scheduled behind the isinstance(sa, str) test of the job: a value
\* that is no string, or an empty one, is None without parsing
ParseScheduled(sa) ==
    IF sa.k = "num" \/ ~Truthy(sa) THEN [ok |-> FALSE, utc |-> 0]
    ELSE FromIsoFormat(sa)

\* the job's test on one row: not (condition_type != "scheduled"), and
\* not (not t or now < t)
PushDue(m, clock) ==
    LET gr == messages[m].gate_rules
        t == ParseScheduled(gr.scheduled_at) IN
    /\ gr.condition_type = "scheduled"
    /\ t.ok
    /\ ~(clock < t.utc)

\* the players the job selects for a team, by audience
PushRecipients(audience, team_id) ==
    LET team == {p \in PlayerIds : Players[p].team_id = team_id} IN
    CASE audience = "TEAM" -> team
      [] audience = "ROLE_A" -> {p \in team : Players[p].role \in {"ROLE_A", "A"}}
      [] audience = "ROLE_B" -> {p \in team : Players[p].role \in {"ROLE_B", "B"}}
      [] OTHER -> {}

DeliveryRecordedNever(m, team_id, session) == FALSE

\* the job's query for a DialogueScheduledDelivery of (message, team): the
\* committed rows and, by autoflush, the rows its own session has added
DeliveryRecorded(m, team_id, session) ==
    BagIn(<<m, team_id>>, deliveries) \/ BagIn(<<m, team_id>>, session)

\* what client.post does: answers 200, answers another status, or raises
\* (connection error, timeout)
Transports == {"200", "403", "error"}

\* send_telegram without its try/except
SendTelegramNoCatch(token, transport) ==
    IF ~token THEN "False"
    ELSE IF transport = "error" THEN "Raise"
    ELSE IF transport = "200" THEN "True" ELSE "False"

\* send_telegram: "True", "False", or "Raise" for an exception leaving it
SendTelegram(token, transport) ==
    IF ~token THEN "False"
    ELSE IF transport = "error" THEN "False"
    ELSE IF transport = "200" THEN "True" ELSE "False"

\* notify_dialogue_message: the text is built, then send_telegram
NotifyDialogueMessage(token, transport) == SendTelegram(token, transport)

\* DeliveryAdded that records the delivery only if a push got through
DeliveryAddedOnSuccess(m, team_id, results) ==
    IF \E p \in DOMAIN results : results[p] = "True"
    THEN SetToBag({<<m, team_id>>}) ELSE EmptyBag

\* db.add(DialogueScheduledDelivery(...)) after the sends, whatever they
\* returned and whoever was there to be told
DeliveryAdded(m, team_id, results) == SetToBag({<<m, team_id>>})

\* the scheduler fires the job: now is read, the rows are loaded
PushBegin ==
    /\ walk.pc = "idle"
    /\ push.pc = "idle"
    /\ push.runs < MaxRuns
    /\ push' = [push EXCEPT !.pc = "run", !.now = now, !.runs = @ + 1,
                            !.rows = DOMAIN messages]
    /\ UNCHANGED <<views, resp, consumed, now, messages, graph, team_progress, replies, visits, gate, walk,
                   triggers, threads, unlockVars, deliveries, sent_push, tg>>

\* the next row of the loop: skipped, or its teams are loaded
PushMessage ==
    /\ walk.pc = "idle"
    /\ push.pc = "run"
    /\ push.cur = NoId
    /\ \E m \in push.rows :
        IF PushDue(m, push.now)
        THEN push' = [push EXCEPT !.cur = m, !.teams = Teams]
        ELSE push' = [push EXCEPT !.rows = @ \ {m}]
    /\ UNCHANGED <<views, resp, consumed, now, messages, graph, team_progress, replies, visits, gate, walk,
                   triggers, threads, unlockVars, deliveries, sent_push, tg>>

\* one team of the row in hand: nothing if a delivery is recorded, else
\* every recipient with a tg_id is notified, each call with the outcome
\* Telegram gives it, and the delivery is added; an exception out of a call
\* ends the job and its session
PushTeam ==
    /\ walk.pc = "idle"
    /\ push.pc = "run"
    /\ push.cur # NoId
    /\ \E team_id \in push.teams :
        IF DeliveryRecorded(push.cur, team_id, push.added)
        THEN /\ push' = [push EXCEPT !.teams = @ \ {team_id}]
             /\ UNCHANGED <<sent_push, tg>>
        ELSE LET players == PushRecipients(messages[push.cur].audience, team_id)
                 told == {p \in players : Players[p].tg_id # 0} IN
             \E transport \in [told -> Transports] :
                LET results == [p \in told |-> NotifyDialogueMessage(tg.token, transport[p])] IN
                /\ sent_push' = sent_push (+) SetToBag({<<p, push.cur>> : p \in told})
                /\ tg' = [tg EXCEPT !.at = <<push.cur, team_id>>,
                                    !.log = {<<transport[p], results[p]>> : p \in told},
                                    !.ok = @ (+) SetToBag({<<p, push.cur>> :
                                                p \in {q \in told : results[q] = "True"}})]
                /\ push' = IF \E p \in told : results[p] = "Raise"
                           THEN [PushIdle EXCEPT !.now = push.now, !.runs = push.runs]
                           ELSE [push EXCEPT !.teams = @ \ {team_id},
                                             !.added = @ (+) DeliveryAdded(push.cur, team_id, results)]
    /\ UNCHANGED <<views, resp, consumed, now, messages, graph, team_progress, replies, visits, gate, walk,
                   triggers, threads, unlockVars, deliveries>>

\* db.commit() after the teams of the row
PushCommit ==
    /\ walk.pc = "idle"
    /\ push.pc = "run"
    /\ push.cur # NoId
    /\ push.teams = {}
    /\ deliveries' = deliveries (+) push.added
    /\ push' = [push EXCEPT !.cur = NoId, !.rows = @ \ {push.cur}, !.added = EmptyBag]
    /\ UNCHANGED <<views, resp, consumed, now, messages, graph, team_progress, replies, visits, gate, walk,
                   triggers, threads, unlockVars, sent_push, tg>>

\* the loop is over, the session closes
PushEnd ==
    /\ walk.pc = "idle"
    /\ push.pc = "run"
    /\ push.cur = NoId
    /\ push.rows = {}
    /\ push' = [push EXCEPT !.pc = "idle"]
    /\ UNCHANGED <<views, resp, consumed, now, messages, graph, team_progress, replies, visits, gate, walk,
                   triggers, threads, unlockVars, deliveries, sent_push, tg>>

\* scheduled_at values an author stores on pushed messages
PushSchedInputs ==
    {NoneTs, Ts("text", 0), Ts("num", 1), Ts("naive", 0), Ts("naive", 2),
     Ts("utc", 1), Ts("plus1", 3)}

PushAudiences == {"TEAM", "ROLE_A", "ROLE_B", "PLAYER"}

\* two messages of thread 1: the first with any audience and any scheduled
\* gate or an immediate one, the second for the team at time 1
InitPush ==
    /\ now = 0
    /\ \E a \in PushAudiences :
       \E r \in {Rule("scheduled", sa, NoId, NoId) : sa \in PushSchedInputs} \cup {Immediate} :
        messages = (1 :> Msg(1, a, 0, <<2>>, r)
                    @@ 2 :> Msg(1, "TEAM", 1, <<>>, Rule("scheduled", Ts("utc", 1), NoId, NoId)))
    /\ team_progress = NoProgress
    /\ replies = <<>>
    /\ visits = [t \in Teams |-> {}]
    /\ gate = NoGate
    /\ walk = Idle
    /\ threads = (1 :> Thread("LEAKED") @@ 2 :> Thread("INTERACTIVE"))
    /\ TablesInit
    /\ \E token \in BOOLEAN : tg = Telegram(token)

NextPush ==
    \/ Tick
    \/ PushBegin
    \/ PushMessage
    \/ PushTeam
    \/ PushCommit
    \/ PushEnd

SpecPush == InitPush /\ [][NextPush]_vars

----------------------------------------------------------------------------
(* Properties of the scheduled-push job (SpecPush) *)

\* a scheduled message whose time, read as UTC, is not after the clock
Elapsed(m, clock) ==
    /\ messages[m].gate_rules.condition_type = "scheduled"
    /\ FromIsoFormat(messages[m].gate_rules.scheduled_at).ok
    /\ FromIsoFormat(messages[m].gate_rules.scheduled_at).utc <= clock

\* C1: over successive runs of the push job no player is sent more than one
\* push for a message and no (message, team) has more than one delivery
\* row; once a run has ended, every message that was elapsed when it
\* started has exactly one delivery row for every team
C1_PushIdempotent ==
    /\ \A p \in PlayerIds : \A m \in DOMAIN messages :
        CopiesIn(<<p, m>>, sent_push) <= 1
    /\ \A m \in DOMAIN messages : \A team_id \in Teams :
        CopiesIn(<<m, team_id>>, deliveries) <= 1
    /\ (push.pc = "idle" /\ push.runs >= 1) =>
        \A m \in DOMAIN messages : \A team_id \in Teams :
            Elapsed(m, push.now) => CopiesIn(<<m, team_id>>, deliveries) = 1

\* two runs have ended, message 1 was elapsed in both: one row, one push
C1_Witness ==
    /\ push.pc = "idle"
    /\ push.runs >= 2
    /\ messages[1].audience = "TEAM"
    /\ Elapsed(1, 0)
    /\ CopiesIn(<<1, 1>>, deliveries) = 1
    /\ CopiesIn(<<1, 1>>, sent_push) = 1
    /\ CopiesIn(<<3, 1>>, sent_push) = 1

\* the players of a team
TeamPlayers(team_id) == {p \in PlayerIds : Players[p].team_id = team_id}

\* no push for message m got through to a player of the team: nobody was
\* there to be told, or every call returned false
NobodyReached(m, team_id) == \A p \in TeamPlayers(team_id) : ~BagIn(<<p, m>>, tg.ok)

\* a run of the job has ended and left a delivery row for every elapsed
\* message and team that no push got through to
DeliveredRegardless ==
    (push.pc = "idle" /\ push.runs >= 1) =>
        \A m \in DOMAIN messages : \A team_id \in Teams :
            (Elapsed(m, push.now) /\ NobodyReached(m, team_id)) =>
                BagIn(<<m, team_id>>, deliveries)

\* C22: the push job records the delivery of (message, team) also when no
\* player of the team matched or every push call returned false, and once
\* the delivery is recorded no step calls the push for that pair again.
C22_DeliveryWithoutSuccess ==
    [][/\ DeliveredRegardless'
       /\ \A m \in DOMAIN messages : \A team_id \in Teams :
             BagIn(<<m, team_id>>, deliveries) =>
                \A p \in TeamPlayers(team_id) :
                    CopiesIn(<<p, m>>, sent_push') = CopiesIn(<<p, m>>, sent_push)]_vars

\* C22 witness: two runs have ended; the push of message 1 to the ROLE_B
\* player of team 1 was called once and returned false, team 2 had nobody
\* for the message's audience, and both teams have their delivery row.
C22_Witness ==
    /\ push.pc = "idle"
    /\ push.runs >= 2
    /\ Elapsed(1, 0)
    /\ messages[1].audience = "ROLE_B"
    /\ tg.token
    /\ PushRecipients("ROLE_B", 2) = {}
    /\ CopiesIn(<<2, 1>>, sent_push) = 1
    /\ NobodyReached(1, 1)
    /\ BagIn(<<1, 1>>, deliveries)
    /\ BagIn(<<1, 2>>, deliveries)

\* C27: every call of the dispatcher returns a boolean, true exactly when the
\* token is set and Telegram answered 200; a missing token, a transport
\* failure and another status give false, and the job that made the calls
\* goes on to record the delivery of the (message, team) it was sending for.
C27_SendNeverRaises ==
    /\ \A c \in tg.log :
          c[2] = IF tg.token /\ c[1] = "200" THEN "True" ELSE "False"
    /\ tg.at # <<NoId, NoId>> => (BagIn(tg.at, push.added) \/ BagIn(tg.at, deliveries))

\* C27 witness: with the token set, one call of a sending step met a
\* transport failure and another a non-200 answer; the delivery is committed.
C27_Witness ==
    /\ tg.token
    /\ <<"error", "False">> \in tg.log
    /\ <<"403", "False">> \in tg.log
    /\ BagIn(tg.at, deliveries)

\* C27, no token: calls were made without a bot token and returned false.
C27_WitnessNoToken == ~tg.token /\ tg.log # {} /\ BagIn(tg.at, deliveries)

----------------------------------------------------------------------------
(* Start rules: the admin handlers and process_dialogue_starts *)

\* start_dt of admin_create_dialogue_start_config from the form field: NULL
\* for a blank or unparsable field, a time without offset is read in the
\* event's time zone
ConfigStartAt(ts) ==
    IF ~Truthy(ts) \/ ~FromIsoFormat(ts).ok THEN [ok |-> FALSE, utc |-> 0]
    ELSE IF ts.k \in {"naive", "naive_s"} THEN [ok |-> TRUE, utc |-> ts.t - EventTzOffset]
    ELSE FromIsoFormat(ts)

\* team_ids of a start rule, as the job and the admin trigger resolve it:
\* the event's teams in primary-key order, or the stored list (no TeamGroup
\* exists, so a "group" rule resolves to no team)
TargetTeamIds(c) ==
    CASE c.target_type = "all" ->
            CHOOSE q \in Orders(Teams) : \A i, j \in DOMAIN q : i < j => q[i] < q[j]
      [] c.target_type = "teams" -> c.target_team_ids
      [] OTHER -> <<>>

\* rows a SELECT of DialogueThreadUnlock for (thread, team) returns in a
\* session: the committed ones and the ones the session has added
UnlockRows(thread_id, team_id, session) ==
    unlocks[<<thread_id, team_id>>] + CopiesIn(<<thread_id, team_id>>, session)

\* scalar_one_or_none() of that SELECT: MultipleResultsFound on two rows
UnlockCheck(thread_id, team_id, session) ==
    IF UnlockRows(thread_id, team_id, session) = 0 THEN "None"
    ELSE IF UnlockRows(thread_id, team_id, session) = 1 THEN "Row" ELSE "Raise"

\* the notify_dialogue_unlocked calls for a team: its players with a tg_id
UnlockNotices(thread_id, team_id) ==
    SetToBag({<<p, thread_id>> : p \in {q \in PlayerIds : /\ Players[q].team_id = team_id
                                                          /\ Players[q].tg_id # 0}})

\* admin_create_dialogue_start_config; the new row's id is one past the
\* largest id of the table.  Authors give a thread one start rule.
AdminCreateDialogueStartConfig(thread_id, start_at, target_type, target_team_ids) ==
    /\ walk.pc = "idle"
    /\ thread_id \notin WithConfig
    /\ LET ids == {c.id : c \in start_configs}
           id == IF ids = {} THEN 1 ELSE 1 + CHOOSE i \in ids : \A j \in ids : j <= i
       IN start_configs' = start_configs \cup
            {Config(id, thread_id, ConfigStartAt(start_at), target_type,
                    IF target_type = "teams" THEN target_team_ids ELSE <<>>)}
    /\ UNCHANGED <<views, resp, consumed, now, messages, graph, team_progress, replies, visits, gate, walk, triggers,
                   threads, unlocks, sent_unlock, starts, trans, admin, pushVars>>

\* admin_delete_dialogue_start_config: the rule goes, its unlocks stay
AdminDeleteDialogueStartConfig(config_id) ==
    /\ walk.pc = "idle"
    /\ start_configs' = {c \in start_configs : c.id # config_id}
    /\ UNCHANGED <<views, resp, consumed, now, messages, graph, team_progress, replies, visits, gate, walk, triggers,
                   threads, unlocks, sent_unlock, starts, trans, admin, pushVars>>

\* the rules process_dialogue_starts acts on: start_at is set and not ahead
StartsDue(clock) ==
    {c \in start_configs : c.start_at.ok /\ ~(clock < c.start_at.utc)}

\* the scheduler fires process_dialogue_starts: now is read and the rules
\* are loaded; with no rule to act on the run is over
StartsBegin ==
    /\ walk.pc = "idle"
    /\ starts.pc = "idle"
    /\ starts' = IF StartsDue(now) = {} THEN StartsIdle
                 ELSE [StartsIdle EXCEPT !.pc = "run", !.rows = StartsDue(now)]
    /\ UNCHANGED <<views, resp, consumed, now, messages, graph, team_progress, replies, visits, gate, walk, triggers,
                   threads, start_configs, unlocks, sent_unlock, trans, admin, pushVars>>

\* the next rule of the loop: its teams are resolved
StartsConfig ==
    /\ walk.pc = "idle"
    /\ starts.pc = "run"
    /\ starts.cur = NoConfig
    /\ \E c \in starts.rows :
        starts' = [starts EXCEPT !.cur = c, !.team_ids = TargetTeamIds(c)]
    /\ UNCHANGED <<views, resp, consumed, now, messages, graph, team_progress, replies, visits, gate, walk, triggers,
                   threads, start_configs, unlocks, sent_unlock, trans, admin, pushVars>>

\* one team of the rule in hand: the job dies on two unlock rows, does
\* nothing on one, else notifies the team's players and adds the unlock
StartsTeam ==
    /\ walk.pc = "idle"
    /\ starts.pc = "run"
    /\ starts.cur # NoConfig
    /\ starts.team_ids # <<>>
    /\ LET tid == Head(starts.team_ids)
           thread_id == starts.cur.thread_id
           found == UnlockCheck(thread_id, tid, starts.added)
       IN CASE found = "Raise" ->
                /\ starts' = StartsIdle
                /\ UNCHANGED sent_unlock
            [] found = "Row" ->
                /\ starts' = [starts EXCEPT !.team_ids = Tail(@)]
                /\ UNCHANGED sent_unlock
            [] OTHER ->
                /\ sent_unlock' = sent_unlock (+) UnlockNotices(thread_id, tid)
                /\ starts' = [starts EXCEPT !.team_ids = Tail(@),
                                            !.added = @ (+) SetToBag({<<thread_id, tid>>})]
    /\ UNCHANGED <<views, resp, consumed, now, messages, graph, team_progress, replies, visits, gate, walk, triggers,
                   threads, start_configs, unlocks, trans, admin, pushVars>>

\* db.commit() after the teams of the rule
StartsCommit ==
    /\ walk.pc = "idle"
    /\ starts.pc = "run"
    /\ starts.cur # NoConfig
    /\ starts.team_ids = <<>>
    /\ unlocks' = [k \in Threads \X Teams |-> unlocks[k] + CopiesIn(k, starts.added)]
    /\ starts' = [starts EXCEPT !.cur = NoConfig, !.rows = @ \ {starts.cur},
                                !.added = EmptyBag]
    /\ UNCHANGED <<views, resp, consumed, now, messages, graph, team_progress, replies, visits, gate, walk, triggers,
                   threads, start_configs, sent_unlock, trans, admin, pushVars>>

\* the loop is over, the session closes
StartsEnd ==
    /\ walk.pc = "idle"
    /\ starts.pc = "run"
    /\ starts.cur = NoConfig
    /\ starts.rows = {}
    /\ starts' = StartsIdle
    /\ UNCHANGED <<views, resp, consumed, now, messages, graph, team_progress, replies, visits, gate, walk, triggers,
                   threads, start_configs, unlocks, sent_unlock, trans, admin, pushVars>>

\* admin_trigger_dialogue_start up to the call of _unlock_and_notify: a
\* redirect when the rule is gone, else the rule's teams are resolved
AdminTriggerDialogueStart(config_id) ==
    /\ walk.pc = "idle"
    /\ admin.pc = "idle"
    /\ IF \E c \in start_configs : c.id = config_id
       THEN \E c \in start_configs :
                /\ c.id = config_id
                /\ admin' = [AdminIdle EXCEPT !.pc = "run", !.thread_id = c.thread_id,
                                              !.team_ids = TargetTeamIds(c)]
       ELSE admin' = AdminIdle
    /\ UNCHANGED <<views, resp, consumed, now, messages, graph, team_progress, replies, visits, gate, walk, triggers,
                   threads, start_configs, unlocks, sent_unlock, starts, trans, pushVars>>

\* _unlock_and_notify, one team: as the job, with the error ending the request
UnlockAndNotifyTeam ==
    /\ walk.pc = "idle"
    /\ admin.pc = "run"
    /\ admin.team_ids # <<>>
    /\ LET tid == Head(admin.team_ids)
           found == UnlockCheck(admin.thread_id, tid, admin.added)
       IN CASE found = "Raise" ->
                /\ admin' = AdminIdle
                /\ UNCHANGED sent_unlock
            [] found = "Row" ->
                /\ admin' = [admin EXCEPT !.team_ids = Tail(@)]
                /\ UNCHANGED sent_unlock
            [] OTHER ->
                /\ sent_unlock' = sent_unlock (+) UnlockNotices(admin.thread_id, tid)
                /\ admin' = [admin EXCEPT !.team_ids = Tail(@),
                                          !.added = @ (+) SetToBag({<<admin.thread_id, tid>>})]
    /\ UNCHANGED <<views, resp, consumed, now, messages, graph, team_progress, replies, visits, gate, walk, triggers,
                   threads, start_configs, unlocks, starts, trans, pushVars>>

\* _unlock_and_notify: db.commit() after all teams, then the redirect
UnlockAndNotifyCommit ==
    /\ walk.pc = "idle"
    /\ admin.pc = "run"
    /\ admin.team_ids = <<>>
    /\ unlocks' = [k \in Threads \X Teams |-> unlocks[k] + CopiesIn(k, admin.added)]
    /\ admin' = AdminIdle
    /\ UNCHANGED <<views, resp, consumed, now, messages, graph, team_progress, replies, visits, gate, walk, triggers,
                   threads, start_configs, sent_unlock, starts, trans, pushVars>>

----------------------------------------------------------------------------
(* Chained transitions: process_dialogue_transitions *)

\* TransDue without the test on unlock_at
TransDueAll(clock) == triggers

\* the triggers process_dialogue_transitions loads: unlock_at <= now
TransDue(clock) ==
    [r \in {x \in BagToSet(triggers) : x.unlock_at <= clock} |-> triggers[r]]

\* the scheduler fires the job: the triggers are loaded; with none the run
\* is over
TransBegin ==
    /\ walk.pc = "idle"
    /\ trans.pc = "idle"
    /\ trans' = IF TransDue(now) = EmptyBag THEN TransIdle
                ELSE [TransIdle EXCEPT !.pc = "run", !.rows = TransDue(now)]
    /\ UNCHANGED <<views, resp, consumed, now, messages, graph, team_progress, replies, visits, gate, walk, triggers,
                   threads, start_configs, unlocks, sent_unlock, starts, admin, pushVars>>

\* the next trigger of the loop, up to its commit: the job dies on two
\* unlock rows; on one the trigger is only deleted; else the team's players
\* are notified and an unlock is added
TransTrigger ==
    /\ walk.pc = "idle"
    /\ trans.pc = "run"
    /\ trans.cur = NoRow
    /\ \E r \in BagToSet(trans.rows) :
        LET found == UnlockCheck(r.target_thread_id, r.team_id, EmptyBag)
        IN CASE found = "Raise" ->
                /\ trans' = TransIdle
                /\ UNCHANGED sent_unlock
             [] found = "Row" ->
                /\ trans' = [trans EXCEPT !.cur = r, !.add = FALSE]
                /\ UNCHANGED sent_unlock
             [] OTHER ->
                /\ sent_unlock' = sent_unlock (+) UnlockNotices(r.target_thread_id, r.team_id)
                /\ trans' = [trans EXCEPT !.cur = r, !.add = TRUE]
    /\ UNCHANGED <<views, resp, consumed, now, messages, graph, team_progress, replies, visits, gate, walk, triggers,
                   threads, start_configs, unlocks, starts, admin, pushVars>>

\* the (team, source message, target thread) transition a trigger row stands for
Transition(r) == <<r.team_id, r.source_message_id, r.target_thread_id>>

\* db.delete(trigger) and db.commit(), with the unlock if one was added;
\* consumed keeps the transitions the job has completed
TransCommit ==
    /\ walk.pc = "idle"
    /\ trans.pc = "run"
    /\ trans.cur # NoRow
    /\ triggers' = triggers (-) SetToBag({trans.cur})
    /\ unlocks' = IF trans.add
                  THEN [unlocks EXCEPT ![<<trans.cur.target_thread_id, trans.cur.team_id>>] = @ + 1]
                  ELSE unlocks
    /\ trans' = [trans EXCEPT !.cur = NoRow, !.add = FALSE,
                              !.rows = @ (-) SetToBag({trans.cur})]
    /\ consumed' = consumed \cup {Transition(trans.cur)}
    /\ UNCHANGED <<views, resp, now, messages, graph, team_progress, replies, visits, gate, walk,
                   threads, start_configs, sent_unlock, starts, admin, pushVars>>

\* the loop is over, the session closes
TransEnd ==
    /\ walk.pc = "idle"
    /\ trans.pc = "run"
    /\ trans.cur = NoRow
    /\ trans.rows = EmptyBag
    /\ trans' = TransIdle
    /\ UNCHANGED <<views, resp, consumed, now, messages, graph, team_progress, replies, visits, gate, walk, triggers,
                   threads, start_configs, unlocks, sent_unlock, starts, admin, pushVars>>

----------------------------------------------------------------------------
(* Spec: the three unlock paths, the start rules and players who reach a
   node that chains to another thread *)

\* the loop of dialogue_view run to its end
RECURSIVE RunWalk(_)
RunWalk(w) ==
    IF w.pc # "loop" THEN w
    ELSE RunWalk(IF w.queue = <<>> THEN [w EXCEPT !.pc = "done"] ELSE WalkIteration(w))

\* dialogue_view as one step: the walk, then the trigger rows
DialogueView(p, key) ==
    /\ walk.pc = "idle"
    /\ \E rows \in QueryOrders(p) : triggers' = TriggersAfter(RunWalk(WalkStart(p, key, rows)))
    /\ UNCHANGED <<views, resp, consumed, now, messages, graph, team_progress, replies, visits, gate, walk, schedVars>>

\* start_at fields an admin submits; target lists of a "teams" rule
StartAtInputs == {Ts("empty", 0), Ts("naive", 4)}

TargetInputs == {<<"all", <<>>>>, <<"teams", <<1>>>>}

\* thread 1 is open to all and its only node chains to thread 2 after one
\* time unit; thread 2 is of either kind and has no start rule yet
Init ==
    /\ now = 0
    /\ messages = (1 :> MsgT(1, "TEAM", 0, <<>>, Immediate, [thread_key |-> 2, delay_minutes |-> 1])
                   @@ 2 :> Msg(2, "TEAM", 0, <<>>, Immediate))
    /\ team_progress = NoProgress
    /\ replies = <<>>
    /\ visits = [t \in Teams |-> {}]
    /\ gate = NoGate
    /\ walk = Idle
    /\ \E type \in {"LEAKED", "INTERACTIVE"} :
        threads = (1 :> Thread("LEAKED") @@ 2 :> Thread(type))
    /\ SchedInit

Next ==
    \/ Tick
    \/ \E sa \in StartAtInputs, target \in TargetInputs :
        AdminCreateDialogueStartConfig(2, sa, target[1], target[2])
    \/ AdminDeleteDialogueStartConfig(1)
    \/ AdminTriggerDialogueStart(1)
    \/ UnlockAndNotifyTeam
    \/ UnlockAndNotifyCommit
    \/ StartsBegin
    \/ StartsConfig
    \/ StartsTeam
    \/ StartsCommit
    \/ StartsEnd
    \/ \E p \in {1, 2} : DialogueView(p, 1)
    \/ TransBegin
    \/ TransTrigger
    \/ TransCommit
    \/ TransEnd

Spec == Init /\ [][Next]_vars

----------------------------------------------------------------------------
(* Trigger creation (Spec) *)

\* C20: a step records a TransitionTrigger for a (team, source message,
\* target thread) transition only if none is pending for it and the
\* transitions job has not completed it before.
C20_TriggerOnlyOnce ==
    [][\A r \in BagToSet(triggers') :
          CopiesIn(r, triggers') > CopiesIn(r, triggers) =>
              /\ Transition(r) \notin consumed
              /\ \A x \in BagToSet(triggers) : Transition(x) # Transition(r)]_vars

\* C21: a run of the transitions job deletes every trigger it loaded; for
\* each of them, a team that already holds a ThreadUnlock for the target is
\* not notified and gets no unlock, any other team is notified and gets one.
C21_TriggerSingleShot ==
    [][/\ (trans.pc = "run" /\ trans'.pc = "idle") =>
              \A r \in BagToSet(trans.rows) : CopiesIn(r, triggers') = 0
       /\ (trans.pc = "run" /\ trans.cur = NoRow /\ trans'.cur # NoRow) =>
              IF unlocks[<<trans'.cur.target_thread_id, trans'.cur.team_id>>] > 0
              THEN sent_unlock' = sent_unlock /\ ~trans'.add
              ELSE /\ trans'.add
                   /\ sent_unlock' = sent_unlock
                        (+) UnlockNotices(trans'.cur.target_thread_id, trans'.cur.team_id)]_vars

----------------------------------------------------------------------------
(* SpecJobs: the three scheduler jobs against the clock.  Node 1 of thread 1
   chains to thread 2 after a delay, node 2 is scheduled; an admin gives
   thread 2 a start rule.  The push job reads and writes only messages,
   teams, players and deliveries, the other two jobs only start rules,
   unlocks and triggers, so the push job is run between their runs, not
   interleaved with them. *)

JobSchedInputs == {Ts("naive", 1), Ts("utc", 2), Ts("plus1", 3), Ts("text", 0)}

JobStartInputs == {Ts("empty", 0), Ts("naive", 4), Ts("utc", 2)}

InitJobs ==
    /\ now = 0
    /\ \E sa \in JobSchedInputs :
          messages = (1 :> MsgT(1, "TEAM", 0, <<2>>, Immediate, [thread_key |-> 2, delay_minutes |-> 1])
                      @@ 2 :> Msg(1, "ROLE_B", 1, <<>>, Rule("scheduled", sa, NoId, NoId)))
    /\ team_progress = NoProgress
    /\ replies = <<>>
    /\ visits = [t \in Teams |-> {}]
    /\ gate = NoGate
    /\ walk = Idle
    /\ threads = (1 :> Thread("LEAKED") @@ 2 :> Thread("INTERACTIVE"))
    /\ SchedInit

NextJobs ==
    \/ Tick
    \/ \E sa \in JobStartInputs : AdminCreateDialogueStartConfig(2, sa, "all", <<>>)
    \/ DialogueView(1, 1)
    \/ starts.pc = "idle" /\ trans.pc = "idle" /\ PushBegin
    \/ PushMessage
    \/ PushTeam
    \/ PushCommit
    \/ PushEnd
    \/ push.pc = "idle" /\ StartsBegin
    \/ StartsConfig
    \/ StartsTeam
    \/ StartsCommit
    \/ StartsEnd
    \/ push.pc = "idle" /\ TransBegin
    \/ TransTrigger
    \/ TransCommit
    \/ TransEnd

SpecJobs == InitJobs /\ [][NextJobs]_vars

\* the push job made a call or recorded a delivery for message m in this step
PushActs(m) ==
    \/ \E p \in PlayerIds : CopiesIn(<<p, m>>, sent_push') > CopiesIn(<<p, m>>, sent_push)
    \/ \E team_id \in Teams :
          \/ CopiesIn(<<m, team_id>>, push'.added) > CopiesIn(<<m, team_id>>, push.added)
          \/ CopiesIn(<<m, team_id>>, deliveries') > CopiesIn(<<m, team_id>>, deliveries)

\* the starts job notified a team, added an unlock to its session or
\* committed one in this step
StartsActs ==
    /\ starts.pc = "run"
    /\ starts' # starts
    /\ \/ sent_unlock' # sent_unlock
       \/ starts'.added # starts.added
       \/ unlocks' # unlocks

\* the transitions job notified for a trigger, or deleted it, in this step
TransActs(r) ==
    \/ trans.pc = "run" /\ trans'.cur = r /\ trans.cur # r
    \/ CopiesIn(r, triggers') < CopiesIn(r, triggers)

\* C23: no job acts early.  A step that pushes a message or records its
\* delivery finds its scheduled_at reached; a step of the starts job that
\* notifies or unlocks works on a rule whose start_at is set and reached; a
\* step that converts or discards a trigger finds its unlock_at reached.
C23_NoJobActsEarly ==
    [][/\ \A m \in DOMAIN messages : PushActs(m) => Elapsed(m, now)
       /\ StartsActs =>
             \E c \in start_configs :
                 /\ (c = starts.cur \/ c \in starts.rows)
                 /\ c.start_at.ok
                 /\ c.start_at.utc <= now
       /\ \A r \in BagToSet(triggers) : TransActs(r) => r.unlock_at <= now]_vars

\* C23 witness: each job has acted: the scheduled node has its delivery,
\* team 2 was unlocked by the starts job and team 1's trigger was consumed.
C23_Witness ==
    /\ BagIn(<<2, 1>>, deliveries)
    /\ unlocks[<<2, 2>>] > 0
    /\ consumed # {}

----------------------------------------------------------------------------
(* SpecVis: what players are listed and may open, over every authored type,
   role restriction and audience, as start rules come and go and teams are
   unlocked.  Thread 1 holds one message, thread 2 none. *)

TypeInputs == {"LEAKED", "INTERACTIVE", "interactive"}

RoleInputs == {{}, {"ROLE_A"}, {"ROLE_B"}}

InitVis ==
    /\ now = 0
    /\ \E a \in PushAudiences :
          messages = (1 :> Msg(1, a, 0, <<>>, Immediate))
    /\ team_progress = NoProgress
    /\ replies = <<>>
    /\ visits = [t \in Teams |-> {}]
    /\ gate = NoGate
    /\ walk = Idle
    /\ \E t1 \in TypeInputs, r1 \in RoleInputs, t2 \in {"LEAKED", "INTERACTIVE"} :
          threads = (1 :> ThreadFor(t1, r1) @@ 2 :> Thread(t2))
    /\ SchedInit

NextVis ==
    \/ \E target \in TargetInputs :
          AdminCreateDialogueStartConfig(1, Ts("empty", 0), target[1], target[2])
    \/ AdminDeleteDialogueStartConfig(1)
    \/ AdminTriggerDialogueStart(1)
    \/ UnlockAndNotifyTeam
    \/ UnlockAndNotifyCommit
    \/ \E p \in DOMAIN Players : DialoguesList(p)
    \/ \E p \in DOMAIN Players, key \in Threads : DialogueViewBegin(p, key)
    \/ DialogueViewLoop
    \/ DialogueViewEnd

SpecVis == InitVis /\ [][NextVis]_vars

\* the StartConfig rows and ThreadUnlock rows as the tables hold them
HasStartConfig(th) == \E c \in start_configs : c.thread_id = th

HoldsUnlock(th, team_id) == unlocks[<<th, team_id>>] > 0

RoleExcluded(th, role) ==
    \/ threads[th].target_roles # {} /\ role \notin threads[th].target_roles
    \/ ~\E m \in DOMAIN messages :
            messages[m].thread_id = th /\ messages[m].audience \in {"TEAM", role}

\* C17: a thread whose role restriction excludes the player's normalized
\* role, or that has no message for that role or the team (a thread without
\* messages included), is not in the player's list and is answered 403 when
\* opened; the traversal loop never runs on a thread without messages.
C17_RoleExcludedThreadHidden ==
    /\ resp.kind = "list" =>
          \A th \in resp.threads : ~RoleExcluded(th, NormalizeRole(Players[resp.p].role))
    /\ (walk.pc \in {"loop", "done"}
          /\ RoleExcluded(walk.key, NormalizeRole(Players[walk.p].role))) =>
              walk.status = 403 /\ walk.visible = <<>> /\ walk.pc = "done"
    /\ walk.pc = "loop" => \E m \in DOMAIN messages : messages[m].thread_id = walk.key

\* C17 witness: a player opened a thread that is visible to the team and has
\* a message for the role, but whose target_roles name the other role only.
C17_Witness ==
    /\ walk.pc = "done"
    /\ walk.status = 403
    /\ ThreadVisible(walk.key, Players[walk.p].team_id)
    /\ threads[walk.key].target_roles # {}
    /\ NormalizeRole(Players[walk.p].role) \notin threads[walk.key].target_roles
    /\ \E m \in DOMAIN messages :
          /\ messages[m].thread_id = walk.key
          /\ messages[m].audience \in {"TEAM", NormalizeRole(Players[walk.p].role)}

\* C17, empty thread: a player opened the thread without messages while it was
\* visible to the team.
C17_WitnessEmpty ==
    /\ walk.pc = "done"
    /\ walk.status = 403
    /\ walk.key = 2
    /\ ThreadVisible(2, Players[walk.p].team_id)

----------------------------------------------------------------------------
(* Properties of the unlock paths (Spec) *)

\* C2: whatever the interleaving of the starts job, the transitions job and
\* the admin trigger, a (thread, team) pair never has more than one
\* ThreadUnlock row
C2_OneUnlockPerPair ==
    \A k \in Threads \X Teams : unlocks[k] <= 1

\* C3: whatever the interleaving of the three unlock paths, a player is sent
\* at most one "dialogue unlocked" notification for a thread
C3_OneNoticePerPlayer ==
    \A p \in PlayerIds : \A th \in Threads : CopiesIn(<<p, th>>, sent_unlock) <= 1

\* C4: a thread with a ThreadUnlock for a team is visible to that team
C4_UnlockedIsVisible ==
    \A th \in Threads : \A team_id \in Teams :
        unlocks[<<th, team_id>>] > 0 => ThreadVisible(th, team_id)

----------------------------------------------------------------------------
(* Graph authoring: admin_dialogue_graph_save and admin_delete_dialogue
   (SpecAuthor) *)

\* the last id the sequence of dialogue_messages.id may reach
MaxMessageId == 5

\* an id as the JSON of a graph carries it, on a node or as the next_id of an
\* option: null or absent, a client-local string that starts with "new", or
\* an integer
Cid(k, n) == [k |-> k, n |-> n]

NoCid == Cid("none", 0)

NewCid(n) == Cid("new", n)

IntCid(n) == Cid("int", n)

\* a submitted node: its id, its audience, the next_id of its reply options
Node(id, audience, next_ids) == [id |-> id, audience |-> audience, reply_options |-> next_ids]

\* the next_message_id a stored option holds, as resolve_id reads it
RawOf(opts) == [i \in DOMAIN opts |-> IF opts[i] = NoId THEN NoCid ELSE IntCid(opts[i])]

\* is_new: no id, a "new" string, or an integer that is no message of the
\* thread (msgs_by_id holds the messages created so far in the call as well)
IsNew(nid, msgs_by_id) ==
    \/ nid.k = "none"
    \/ nid.k = "new"
    \/ nid.k = "int" /\ nid.n \notin DOMAIN msgs_by_id

\* the loop over the submitted nodes from the i-th on: a new node becomes a
\* message under the next id of the sequence, and id_map[nid] is set to it
\* (replacing what an earlier node with the same nid had put there); a stored
\* node is rewritten under its id.  created keeps, node by node, the id the
\* node was created under (NoId for a node that was not created).
RECURSIVE SaveNodes(_, _, _)
SaveNodes(nodes, i, st) ==
    IF i > Len(nodes) THEN st
    ELSE LET n == nodes[i]
             row == [audience |-> n.audience, order_index |-> i - 1, raw |-> n.reply_options]
         IN  IF IsNew(n.id, st.msgs_by_id)
             THEN LET id == st.last_id + 1
                  IN  SaveNodes(nodes, i + 1,
                                [msgs_by_id |-> (id :> row) @@ st.msgs_by_id,
                                 id_map |-> (n.id :> id) @@ st.id_map,
                                 created |-> Append(st.created, id),
                                 last_id |-> id])
             ELSE SaveNodes(nodes, i + 1,
                            [msgs_by_id |-> (n.id.n :> row) @@ st.msgs_by_id,
                             id_map |-> (n.id :> n.id.n) @@ st.id_map,
                             created |-> Append(st.created, NoId),
                             last_id |-> st.last_id])

\* resolve_id: None for no id and for an id that is not a key of id_map
ResolveId(x, id_map) ==
    CASE x.k = "none" -> NoId
      [] x.k = "new" -> IF x \in DOMAIN id_map THEN id_map[x] ELSE NoId
      [] x.k = "int" -> IF x \in DOMAIN id_map THEN id_map[x] ELSE NoId

\* the same without the client-local ids
ResolvedTargetStoredOnly(x, id_map) ==
    IF x.k = "int" /\ ResolveId(x, id_map) # NoId THEN ResolveId(x, id_map)
    ELSE IF x.k = "new" THEN NoId ELSE x.n

\* the second pass, for one option: the resolved id replaces the submitted
\* one when there is one, and a "new" string never stays; an integer that
\* resolves to nothing stays as it was
ResolvedTarget(x, id_map) ==
    IF ResolveId(x, id_map) # NoId \/ x.k = "new" THEN ResolveId(x, id_map) ELSE x.n

\* keep_ids
KeepIds(nodes, id_map) ==
    {id_map[nodes[i].id] : i \in {j \in DOMAIN nodes : nodes[j].id \in DOMAIN id_map}}
    \cup {nodes[i].id.n : i \in {j \in DOMAIN nodes : /\ nodes[j].id \notin DOMAIN id_map
                                                       /\ nodes[j].id.k = "int"}}

\* msgs_by_id as the handler builds it from thread.messages
MsgsById(thread_id) ==
    [m \in ThreadMessages(thread_id) |->
        [audience |-> messages[m].audience, order_index |-> messages[m].order_index,
         raw |-> RawOf(messages[m].reply_options)]]

\* the locals of the handler after the loop over the nodes
Saved(thread_id, nodes) ==
    SaveNodes(nodes, 1, [msgs_by_id |-> MsgsById(thread_id), id_map |-> <<>>,
                         created |-> <<>>, last_id |-> graph.last_id])

\* the row of a message the save wrote: the gate rule is the default one, the
\* payload holds no trigger (the submitted nodes carry neither)
SavedRow(thread_id, row, id_map) ==
    MsgT(thread_id, row.audience, row.order_index,
         [i \in DOMAIN row.raw |-> ResolvedTarget(row.raw[i], id_map)], Immediate, NoTrigger)

\* what the foreign keys of the message table do when the messages `gone`
\* are deleted: deliveries, replies and triggers of a deleted message go with
\* it, a reply that led to it loses its next_message_id
RepliesAfterDelete(gone) ==
    LET kept == SelectSeq(replies, LAMBDA r : r.message_id \notin gone)
    IN  [i \in DOMAIN kept |->
            IF kept[i].next_message_id \in gone
            THEN [kept[i] EXCEPT !.next_message_id = NoId] ELSE kept[i]]

DeliveriesAfterDelete(gone) ==
    [d \in {x \in BagToSet(deliveries) : x[1] \notin gone} |-> deliveries[d]]

TriggersAfterDelete(gone) ==
    [r \in {x \in BagToSet(triggers) : x.source_message_id \notin gone} |-> triggers[r]]

\* admin_dialogue_graph_save
AdminDialogueGraphSave(thread_id, nodes) ==
    /\ graph.last_id + Len(nodes) <= MaxMessageId
    /\ IF thread_id \notin DOMAIN threads
       THEN /\ graph' = [NoCall(graph.last_id) EXCEPT !.op = "save", !.thread_id = thread_id,
                                                      !.out = "Thread not found", !.nodes = nodes]
            /\ UNCHANGED <<messages, replies, deliveries, triggers>>
       ELSE LET st == Saved(thread_id, nodes)
                keep_ids == KeepIds(nodes, st.id_map)
                gone == DOMAIN st.msgs_by_id \ keep_ids
                others == DOMAIN messages \ ThreadMessages(thread_id)
            IN  /\ messages' = [m \in others \cup (DOMAIN st.msgs_by_id \cap keep_ids) |->
                                   IF m \in others THEN messages[m]
                                   ELSE SavedRow(thread_id, st.msgs_by_id[m], st.id_map)]
                /\ replies' = RepliesAfterDelete(gone)
                /\ deliveries' = DeliveriesAfterDelete(gone)
                /\ triggers' = TriggersAfterDelete(gone)
                /\ graph' = [op |-> "save", thread_id |-> thread_id, out |-> "ok",
                             nodes |-> nodes, id_map |-> st.id_map, created |-> st.created,
                             before |-> ThreadMessages(thread_id), last_id |-> st.last_id]
    /\ UNCHANGED <<views, resp, consumed, now, team_progress, visits, gate, walk, threads, unlockVars,
                   sent_push, push, tg>>

\* db.delete(t) and the flush after it.  DialogueThread.messages has no
\* delete cascade, so the unit of work detaches the loaded messages first:
\* it sets their thread_id to NULL, which the column (nullable=False)
\* refuses; the flush raises whenever the thread has a message
ThreadDeleteFlush(thread_id) ==
    IF ThreadMessages(thread_id) # {} THEN "Raise" ELSE "ok"

\* admin_delete_dialogue: 404 for an unknown thread; otherwise the rows that
\* refer to the thread or to its messages are deleted and then the thread.
\* The flush that raises ends the request with its transaction rolled back.
AdminDeleteDialogue(thread_id) ==
    /\ IF thread_id \notin DOMAIN threads
       THEN /\ graph' = [NoCall(graph.last_id) EXCEPT !.op = "delete", !.thread_id = thread_id,
                                                      !.out = "404"]
            /\ UNCHANGED <<threads, triggers, deliveries, replies, start_configs, unlocks>>
       ELSE LET msg_ids == ThreadMessages(thread_id)
            IN  IF ThreadDeleteFlush(thread_id) = "Raise"
                THEN /\ graph' = [NoCall(graph.last_id) EXCEPT !.op = "delete",
                                                               !.thread_id = thread_id,
                                                               !.out = "Raise",
                                                               !.before = msg_ids]
                     /\ UNCHANGED <<threads, triggers, deliveries, replies, start_configs,
                                    unlocks>>
                ELSE /\ triggers' = [r \in {x \in BagToSet(triggers) :
                                                /\ x.target_thread_id # thread_id
                                                /\ x.source_message_id \notin msg_ids}
                                         |-> triggers[r]]
                     /\ deliveries' = DeliveriesAfterDelete(msg_ids)
                     /\ replies' = SelectSeq(replies, LAMBDA r : r.message_id \notin msg_ids)
                     /\ start_configs' = {c \in start_configs : c.thread_id # thread_id}
                     /\ unlocks' = [k \in DOMAIN unlocks |->
                                       IF k[1] = thread_id THEN 0 ELSE unlocks[k]]
                     /\ threads' = [k \in DOMAIN threads \ {thread_id} |-> threads[k]]
                     /\ graph' = [NoCall(graph.last_id) EXCEPT !.op = "delete",
                                                               !.thread_id = thread_id,
                                                               !.out = "200",
                                                               !.before = msg_ids]
    /\ UNCHANGED <<views, resp, consumed, now, messages, team_progress, visits, gate, walk,
                   sent_unlock, starts, trans, admin, sent_push, push, tg>>

\* admin_delete_message: 404 for an id that is no message of the event;
\* otherwise the row is deleted, and the foreign keys take the deliveries,
\* replies and triggers of the message with it.  The payloads of the other
\* messages are not read.
AdminDeleteMessage(msg_id) ==
    /\ IF msg_id \notin DOMAIN messages
       THEN /\ graph' = [NoCall(graph.last_id) EXCEPT !.op = "delete_message", !.out = "404"]
            /\ UNCHANGED <<messages, replies, deliveries, triggers>>
       ELSE /\ messages' = [m \in DOMAIN messages \ {msg_id} |-> messages[m]]
            /\ replies' = RepliesAfterDelete({msg_id})
            /\ deliveries' = DeliveriesAfterDelete({msg_id})
            /\ triggers' = TriggersAfterDelete({msg_id})
            /\ graph' = [NoCall(graph.last_id) EXCEPT
                            !.op = "delete_message", !.out = "ok",
                            !.thread_id = messages[msg_id].thread_id,
                            !.before = ThreadMessages(messages[msg_id].thread_id)]
    /\ UNCHANGED <<views, resp, consumed, now, team_progress, visits, gate, walk, threads, unlockVars,
                   sent_push, push, tg>>

\* the ids the admin's page submits for a node: none, a client-local id, the
\* id of a stored message and the id of a message that was deleted earlier
NodeIds == {NoCid, NewCid(1), IntCid(1), IntCid(3)}

\* the options of a submitted node: none, or one that leads to the
\* client-local id or to a stored message
NextIdInputs == {<<>>, <<NewCid(1)>>, <<IntCid(2)>>}

NodeSet == {Node(id, "ROLE_A", o) : id \in NodeIds, o \in NextIdInputs}

\* the submitted lists: up to two nodes, no id other than "none" twice
NodeLists ==
    {<<>>} \cup {<<n>> : n \in NodeSet}
    \cup {q \in NodeSet \X NodeSet : q[2].id = NoCid \/ q[2].id # q[1].id}

\* thread 1 holds messages 1 and 2 (message 3 was deleted earlier), a reply
\* 1 -> 2 and a delivery of message 2; thread 2 holds no message and has a
\* start rule, an unlock and a pending transition from message 1
InitAuthor ==
    /\ now = 0
    /\ messages = (1 :> Msg(1, "TEAM", 0, <<2>>, Immediate)
                   @@ 2 :> Msg(1, "TEAM", 1, <<>>, Immediate))
    /\ team_progress = NoProgress
    /\ replies = <<[player_id |-> 1, message_id |-> 1, next_message_id |-> 2, replied_at |-> 0]>>
    /\ visits = [t \in Teams |-> {}]
    /\ gate = NoGate
    /\ walk = Idle
    /\ threads = (1 :> Thread("LEAKED") @@ 2 :> Thread("INTERACTIVE"))
    /\ resp = NoResp
    /\ consumed = {}
    /\ sent_unlock = EmptyBag
    /\ starts = StartsIdle
    /\ trans = TransIdle
    /\ admin = AdminIdle
    /\ start_configs = {Config(1, 2, [ok |-> TRUE, utc |-> 2], "all", <<>>)}
    /\ unlocks = [NoUnlocks EXCEPT ![<<2, 1>>] = 1]
    /\ triggers = SetToBag({[team_id |-> 2, source_message_id |-> 1,
                              target_thread_id |-> 2, unlock_at |-> 2]})
    /\ deliveries = SetToBag({<<2, 1>>})
    /\ sent_push = EmptyBag
    /\ push = PushIdle
    /\ tg = Telegram(TRUE)
    /\ views = NoViews
    /\ graph = NoCall(3)

NextAuthor ==
    \/ \E nodes \in NodeLists : AdminDialogueGraphSave(1, nodes)
    \/ \E thread_id \in Threads : AdminDeleteDialogue(thread_id)
    \/ \E msg_id \in 1 .. MaxMessageId : AdminDeleteMessage(msg_id)

SpecAuthor == InitAuthor /\ [][NextAuthor]_vars

----------------------------------------------------------------------------
(* Properties of graph authoring (SpecAuthor) *)

\* the last call was a graph save that went through
SaveDone == graph.op = "save" /\ graph.out = "ok"

\* the submitted nodes whose id was stored in the thread before the save,
\* and the others (the nodes with a new id)
StoredAt == {i \in DOMAIN graph.nodes : /\ graph.nodes[i].id.k = "int"
                                         /\ graph.nodes[i].id.n \in graph.before}

NewAt == DOMAIN graph.nodes \ StoredAt

\* the id under which the i-th submitted node is to be found after the save
IdOfNode(i) == IF i \in StoredAt THEN graph.nodes[i].id.n ELSE graph.created[i]

\* C24: after a graph save the messages of the thread are exactly one newly
\* created message per submitted node with a new id and, under its own id
\* and rewritten, every submitted node whose id was stored; stored messages
\* absent from the graph are gone and no submitted node is
C24_SaveReconciles ==
    SaveDone =>
        /\ \A i \in NewAt : /\ graph.created[i] # NoId
                            /\ graph.created[i] \notin graph.before
        /\ \A i, j \in NewAt : i # j => graph.created[i] # graph.created[j]
        /\ \A i \in DOMAIN graph.nodes :
              /\ IdOfNode(i) \in ThreadMessages(graph.thread_id)
              /\ messages[IdOfNode(i)].order_index = i - 1
              /\ messages[IdOfNode(i)].audience = graph.nodes[i].audience
        /\ ThreadMessages(graph.thread_id) = {IdOfNode(i) : i \in DOMAIN graph.nodes}

\* the submitted nodes that carry the client-local id c and were created
CreatedAs(c) == {k \in NewAt : graph.nodes[k].id = c /\ c # NoCid}

\* C25: after a graph save, an option of a stored message whose submitted
\* target was the client-local id of a node created in the same save,
\* wherever that node stood in the list, holds the id the server gave that
\* node, and that message is stored
C25_ForwardReferenceResolved ==
    SaveDone =>
        \A i \in DOMAIN graph.nodes :
            IdOfNode(i) \in DOMAIN messages =>
                \A j \in DOMAIN graph.nodes[i].reply_options :
                    \A k \in CreatedAs(graph.nodes[i].reply_options[j]) :
                        /\ messages[IdOfNode(i)].reply_options[j] = graph.created[k]
                        /\ graph.created[k] \in ThreadMessages(graph.thread_id)

\* C25: a stored node whose option led to the client-local id of the node
\* after it in the list was saved, and the option holds the id of the
\* message created for that node.
C25_Witness ==
    /\ SaveDone
    /\ Len(graph.nodes) = 2
    /\ 1 \in graph.before
    /\ graph.nodes[1].id = IntCid(1)
    /\ graph.nodes[1].reply_options = <<NewCid(1)>>
    /\ graph.nodes[2].id = NewCid(1)
    /\ graph.created[2] \in ThreadMessages(1)
    /\ graph.created[2] > 3
    /\ messages[1].reply_options = <<graph.created[2]>>

\* the last call was admin_delete_dialogue on a thread that existed
DeleteCalled == graph.op = "delete" /\ graph.out # "404"

\* C26: after admin_delete_dialogue on a thread, the thread is gone and so
\* is every message, reply, scheduled delivery, transition trigger (from one
\* of its messages or towards it), start rule and unlock that referred to it
\* or to one of its messages
C26_ThreadDeleteCascades ==
    DeleteCalled =>
        /\ graph.thread_id \notin DOMAIN threads
        /\ ThreadMessages(graph.thread_id) = {}
        /\ graph.before \cap DOMAIN messages = {}
        /\ \A i \in DOMAIN replies : replies[i].message_id \notin graph.before
        /\ \A d \in BagToSet(deliveries) : d[1] \notin graph.before
        /\ \A r \in BagToSet(triggers) : /\ r.target_thread_id # graph.thread_id
                                         /\ r.source_message_id \notin graph.before
        /\ \A c \in start_configs : c.thread_id # graph.thread_id
        /\ \A team_id \in Teams : unlocks[<<graph.thread_id, team_id>>] = 0

\* the same for the threads that hold no message
C26_EmptyThreadDeleteCascades ==
    (DeleteCalled /\ graph.before = {}) => C26_ThreadDeleteCascades

----------------------------------------------------------------------------
(* Properties of the entry node and of skipped nodes (SpecWalk) *)

\* the messages of the thread, other than mid itself, with an option to mid
OthersInto(key, mid) == Incoming(key, mid) \ {mid}

\* the entry node as specified: the least order_index among the messages no
\* other message leads to, or among all messages when there is none
EntryNode(key) ==
    LET entries == {m \in ThreadMessages(key) : OthersInto(key, m) = {}}
    IN  IF entries # {} THEN MinOrder(entries) ELSE MinOrder(ThreadMessages(key))

\* dialogue_view has reached its loop and not yet taken a node
WalkBegun == walk.pc = "loop" /\ walk.visited = {} /\ walk.visible = <<>>

\* C28: traversal starts at the message of lowest order_index among those no
\* other message of the thread leads to (an option of a message to itself
\* does not count), and at the message of lowest order_index when every
\* message is led to
C28_EntryNode ==
    WalkBegun => walk.queue = <<EntryNode(walk.key)>>

\* the same for the threads without an option from a message to itself
C28_EntryNodeNoSelfEdge ==
    (WalkBegun /\ \A m \in ThreadMessages(walk.key) : m \notin Incoming(walk.key, m))
        => walk.queue = <<EntryNode(walk.key)>>

\* the node is a message of the thread that the walk does not show to its
\* player: wrong audience, or a gate that fails
Skipped(w, mid) == mid \in ThreadMessages(w.key) /\ ~NodeShown(w, mid)

\* the node the walk goes to from the emitted node mid: the target of its
\* only option, or the stored choice among several when it is a message of
\* the thread; NoId when it goes nowhere
Followed(w, mid) ==
    LET opts == TargetedOptions(mid)
        chosen == ByMsgGet(w.by_msg, mid)
    IN  IF Len(opts) = 1 THEN opts[1]
        ELSE IF Len(opts) > 1 /\ mid \in RepliedIds(w.p) /\ chosen \in ThreadMessages(w.key)
             THEN chosen
        ELSE NoId

\* every node the walk took and does not show is neither emitted nor pending
SkippedStaysOut(w) ==
    \A m \in w.visited : Skipped(w, m) => m \notin SeqRange(w.visible) /\ w.pending # m

\* in a finished walk, a node that an emitted node leads to, that passes
\* audience and gate and was not emitted before, stands right after it
ShownFollows(w) ==
    (w.pc = "done" /\ w.status = 200) =>
        \A i \in DOMAIN w.visible :
            LET m == Followed(w, w.visible[i])
            IN  (/\ m # NoId
                 /\ NodeShown(w, m)
                 /\ \A j \in 1..i : w.visible[j] # m)
                    => i < Len(w.visible) /\ w.visible[i + 1] = m

\* C29: a node that fails the audience filter or its gate is not emitted, is
\* not the pending node, and the step that takes it queues none of its
\* targets; once its gate passes, a traversal over the same graph and history
\* emits it right after the node that leads to it
C29_SkippedBlocksSubtree ==
    [][/\ (walk.pc = "loop" /\ walk.queue # <<>> /\ Head(walk.queue) \notin walk.visited
           /\ Skipped(walk, Head(walk.queue)) /\ walk'.pc # "idle")
          => /\ walk'.queue = Tail(walk.queue)
             /\ walk'.visible = walk.visible
             /\ walk'.pending = NoId
       /\ SkippedStaysOut(walk')
       /\ ShownFollows(walk')]_vars

\* C29: a finished walk of a ROLE_A player stopped at node 2, which waits for
\* station 7 and has an option to node 3; node 3 was not taken.
C29_Witness ==
    /\ walk.pc = "done"
    /\ walk.status = 200
    /\ walk.visible = <<1>>
    /\ 2 \in walk.visited
    /\ messages[2].gate_rules = StationGate
    /\ 7 \notin visits[Players[walk.p].team_id]
    /\ TargetedOptions(2) = <<3>>
    /\ 3 \notin walk.visited
    /\ walk.pending = NoId

\* C29, the release: after the visit to station 7 the walk over the same
\* graph emits node 2 right after node 1 and goes on to node 3.
C29_WitnessReleased ==
    /\ walk.pc = "done"
    /\ walk.status = 200
    /\ messages[2].gate_rules = StationGate
    /\ 7 \in visits[Players[walk.p].team_id]
    /\ replies = <<>>
    /\ walk.visible = <<1, 2, 3>>

\* C29, audience: a finished walk of a ROLE_A player stopped at a node for
\* ROLE_B that has an option to a node not taken.
C29_WitnessAudience ==
    /\ walk.pc = "done"
    /\ walk.status = 200
    /\ Players[walk.p].role = "ROLE_A"
    /\ \E m \in walk.visited :
          /\ m \in ThreadMessages(walk.key)
          /\ messages[m].audience = "ROLE_B"
          /\ m \notin SeqRange(walk.visible)
          /\ \E t \in SeqRange(TargetedOptions(m)) : t \in ThreadMessages(walk.key) \ walk.visited

\* the options of mid that lead to a message of the thread
ExistingOptions(key, mid) ==
    SelectSeq(messages[mid].reply_options, LAMBDA o : o \in ThreadMessages(key))

\* C30: an option whose target is no message of the thread counts as no
\* option: a finished walk asks for a choice only at a node with at least two
\* options that lead to messages of the thread, offers only such options,
\* and has gone on from every emitted node that has exactly one of them
C30_DanglingOptionIgnored ==
    (walk.pc = "done" /\ walk.status = 200) =>
        /\ \A t \in SeqRange(PendingReplyOpts(walk)) : t \in ThreadMessages(walk.key)
        /\ walk.pending # NoId => Len(ExistingOptions(walk.key, walk.pending)) >= 2
        /\ \A m \in SeqRange(walk.visible) :
              Len(ExistingOptions(walk.key, m)) = 1 =>
                  ExistingOptions(walk.key, m)[1] \in walk.visited

\* the same for the threads whose options all lead to messages of the thread
C30_NoDanglingOption ==
    (\A m \in ThreadMessages(walk.key) :
        Len(ExistingOptions(walk.key, m)) = Len(TargetedOptions(m)))
        => C30_DanglingOptionIgnored

----------------------------------------------------------------------------
(* Properties of the response to a reply (SpecReply, SpecWalk) *)

\* no element twice
OnceEach(q) == \A i, j \in DOMAIN q : q[i] = q[j] => i = j

\* C31: dialogue_reply ends on every authored graph, cycles of single-option
\* nodes included, and renders each node at most once
C31_ReplyTerminates ==
    /\ resp.kind # "error"
    /\ resp.kind = "reply" => OnceEach(resp.chain)

\* the same for the calls whose chain does not run into a cycle
C31_ReplyTerminatesOffCycle ==
    resp.kind = "reply" => OnceEach(resp.chain)

\* the player and thread of the last response, as a walk
RespWalk == [Idle EXCEPT !.p = resp.p, !.key = resp.key]

\* C32: every message dialogue_reply returns is one the traversal would emit
\* for the same player and state: it passes the audience filter and the Gate
\* Evaluator
C32_ReplyReturnsOnlyShown ==
    [][(resp'.kind = "reply" /\ resp' # resp) =>
           \A m \in SeqRange(resp'.chain) : NodeShown(RespWalk', m)]_vars

\* the same for the audience filter and the gate apart
C32_ReplyPassesGate ==
    [][(resp'.kind = "reply" /\ resp' # resp) =>
           \A m \in SeqRange(resp'.chain) : NodeShownAnyAudience(RespWalk', m)]_vars

----------------------------------------------------------------------------
(* SpecHold: the scheduled-push job against the admin's overrides.  Message 1
   of thread 1 is scheduled; between the runs of the job the admin sets and
   clears a hold and a forced reveal for team 1. *)

HoldSchedInputs == {Ts("utc", 1), Ts("naive", 2), Ts("text", 0)}

InitHold ==
    /\ now = 0
    /\ \E sa \in HoldSchedInputs :
          messages = (1 :> Msg(1, "TEAM", 0, <<>>, Rule("scheduled", sa, NoId, NoId)))
    /\ team_progress = NoProgress
    /\ replies = <<>>
    /\ visits = [t \in Teams |-> {}]
    /\ gate = NoGate
    /\ walk = Idle
    /\ threads = (1 :> Thread("LEAKED") @@ 2 :> Thread("INTERACTIVE"))
    /\ SchedInit

NextHold ==
    \/ Tick
    \/ /\ push.pc = "idle"
       /\ \E h \in {Ts("empty", 0), Ts("utc", 2), Ts("utc", 3)}, f \in {{}, {1}},
             ch \in BOOLEAN, cf \in BOOLEAN :
             AdminQuestControlSave(1, 1, h, f, ch, cf)
    \/ PushBegin
    \/ PushMessage
    \/ PushTeam
    \/ PushCommit
    \/ PushEnd

SpecHold == InitHold /\ [][NextHold]_vars

----------------------------------------------------------------------------
(* Properties of the scheduled-push job against the Gate Evaluator (SpecHold) *)

\* the step is the job handling (m, team_id) as due: pushes go out and the
\* delivery is added to its session
PushTreatsDue(m, team_id) ==
    /\ push.pc = "run"
    /\ push.cur = m
    /\ CopiesIn(<<m, team_id>>, push'.added) > CopiesIn(<<m, team_id>>, push.added)

\* the Gate Evaluator on message m for team_id at the job's clock
GateForTeam(m, team_id) ==
    CheckConditions(m, {}, visits[team_id], team_progress[team_id],
                    messages[m].thread_id, push.now)

\* C33: the job handles a scheduled message as due for a team only when the
\* Gate Evaluator, with the team's override bag for the thread, reports it
\* visible at the job's clock; no push goes to a team under an active hold
C33_PushAgreesWithGate ==
    [][\A m \in DOMAIN messages : \A team_id \in Teams :
          PushTreatsDue(m, team_id) =>
              /\ GateForTeam(m, team_id) = "True"
              /\ ~HoldActive(team_progress[team_id][messages[m].thread_id], push.now)]_vars

\* the same for the teams whose override bag is empty
C33_PushAgreesWithGateNoOverride ==
    [][\A m \in DOMAIN messages : \A team_id \in Teams :
          (PushTreatsDue(m, team_id)
           /\ team_progress[team_id][messages[m].thread_id] = NoOverride)
              => GateForTeam(m, team_id) = "True"]_vars

----------------------------------------------------------------------------
(* Properties of the recipients of a push (SpecPush) *)

\* the step notifies player p of message m
Notified(p, m) == CopiesIn(<<p, m>>, sent_push') > CopiesIn(<<p, m>>, sent_push)

\* the players of the team the message is for, by the role normalization of
\* the traversal
AudiencePlayers(audience, team_id) ==
    {p \in TeamPlayers(team_id) :
        audience = "TEAM" \/ NormalizeRole(Players[p].role) = audience}

\* C34: when the job handles a message for a team, the players it notifies
\* are all players of the team for a TEAM message, and for a message of a
\* role exactly the players whose normalized role is that role, a player
\* without a role counting as ROLE_A
C34_RecipientsByNormalizedRole ==
    [][\A m \in DOMAIN messages : \A team_id \in Teams :
          (PushTreatsDue(m, team_id) /\ messages[m].audience \in {"TEAM", "ROLE_A", "ROLE_B"})
              => \A p \in TeamPlayers(team_id) :
                    Notified(p, m) <=> p \in AudiencePlayers(messages[m].audience, team_id)]_vars

\* the same for the players whose role is stored
C34_RecipientsWithStoredRole ==
    [][\A m \in DOMAIN messages : \A team_id \in Teams :
          (PushTreatsDue(m, team_id) /\ messages[m].audience \in {"TEAM", "ROLE_A", "ROLE_B"})
              => \A p \in TeamPlayers(team_id) :
                    Players[p].role # "None" =>
                        (Notified(p, m) <=> p \in AudiencePlayers(messages[m].audience, team_id))]_vars

----------------------------------------------------------------------------
(* SpecLive: the starts job and the transitions job fired again and again
   by their interval triggers, with no authoring after the start.  Node 1 of
   thread 1 chains to thread 2 after one time unit, and thread 2 has a start
   rule for all teams at time 1. *)

InitLive ==
    /\ now = 0
    /\ messages = (1 :> MsgT(1, "TEAM", 0, <<2>>, Immediate, [thread_key |-> 2, delay_minutes |-> 1])
                   @@ 2 :> Msg(1, "TEAM", 1, <<>>, Immediate))
    /\ team_progress = NoProgress
    /\ replies = <<>>
    /\ visits = [t \in Teams |-> {}]
    /\ gate = NoGate
    /\ walk = Idle
    /\ threads = (1 :> Thread("LEAKED") @@ 2 :> Thread("INTERACTIVE"))
    /\ views = NoViews
    /\ graph = NoCall(NoId)
    /\ resp = NoResp
    /\ consumed = {}
    /\ sent_unlock = EmptyBag
    /\ starts = StartsIdle
    /\ trans = TransIdle
    /\ admin = AdminIdle
    /\ start_configs = {Config(1, 2, [ok |-> TRUE, utc |-> 1], "all", <<>>)}
    /\ unlocks = NoUnlocks
    /\ triggers = EmptyBag
    /\ deliveries = EmptyBag
    /\ sent_push = EmptyBag
    /\ push = PushIdle
    /\ tg = Telegram(TRUE)

NextLive ==
    \/ Tick
    \/ DialogueView(1, 1)
    \/ StartsBegin
    \/ StartsConfig
    \/ StartsTeam
    \/ StartsCommit
    \/ StartsEnd
    \/ TransBegin
    \/ TransTrigger
    \/ TransCommit
    \/ TransEnd

\* every job is fired again after it has ended, and a job that runs goes on
\* to its next step
FairJobs ==
    /\ WF_vars(Tick)
    /\ WF_vars(StartsBegin) /\ WF_vars(StartsConfig) /\ WF_vars(StartsTeam)
    /\ WF_vars(StartsCommit) /\ WF_vars(StartsEnd)
    /\ WF_vars(TransBegin) /\ WF_vars(TransTrigger) /\ WF_vars(TransCommit)
    /\ WF_vars(TransEnd)

SpecLive == InitLive /\ [][NextLive]_vars /\ FairJobs

----------------------------------------------------------------------------
(* Properties of the jobs under fair scheduling (SpecLive) *)

\* the trigger rows a player's traversal can leave in SpecLive
TriggerRows ==
    {[team_id |-> t, source_message_id |-> 1, target_thread_id |-> 2, unlock_at |-> u] :
        t \in Teams, u \in 1..(MaxTime + 1)}

\* a start rule of the thread that has elapsed and targets the team
StartElapsed(thread_id, team_id) ==
    \E c \in StartsDue(now) :
        c.thread_id = thread_id /\ team_id \in SeqRange(TargetTeamIds(c))

\* C35: with the jobs fired again and again and no authoring change, every
\* elapsed start rule gets an unlock for every team it targets and every
\* elapsed trigger is consumed, failed runs notwithstanding
C35_JobsCatchUp ==
    /\ \A thread_id \in Threads : \A team_id \in Teams :
          StartElapsed(thread_id, team_id) ~> (unlocks[<<thread_id, team_id>>] > 0)
    /\ \A r \in TriggerRows :
          (BagIn(r, triggers) /\ r.unlock_at <= now) ~> ~BagIn(r, triggers)

\* the same for the behaviours in which no (thread, team) pair ever gets a
\* second unlock row
C35_JobsCatchUpWithoutDuplicates ==
    \/ <>(\E k \in Threads \X Teams : unlocks[k] > 1)
    \/ C35_JobsCatchUp

----------------------------------------------------------------------------
(* SpecCrash: the scheduled-push job when a query of a run fails.  Message 1
   of thread 1 is for the team and scheduled at time 1. *)

\* the query for the delivery of the next team (r3) raises, a database
\* error: the exception leaves the job, and the session goes with the rows
\* added since the last commit
PushAbort ==
    /\ walk.pc = "idle"
    /\ push.pc = "run"
    /\ push.cur # NoId
    /\ push.teams # {}
    /\ push' = [PushIdle EXCEPT !.now = push.now, !.runs = push.runs]
    /\ UNCHANGED <<views, resp, consumed, now, messages, graph, team_progress, replies, visits, gate, walk,
                   triggers, threads, unlockVars, deliveries, sent_push, tg>>

InitCrash ==
    /\ now = 0
    /\ \E a \in {"TEAM", "ROLE_A"} :
          messages = (1 :> Msg(1, a, 0, <<>>, Rule("scheduled", Ts("utc", 1), NoId, NoId)))
    /\ team_progress = NoProgress
    /\ replies = <<>>
    /\ visits = [t \in Teams |-> {}]
    /\ gate = NoGate
    /\ walk = Idle
    /\ threads = (1 :> Thread("LEAKED") @@ 2 :> Thread("INTERACTIVE"))
    /\ SchedInit

NextCrash ==
    \/ Tick
    \/ PushBegin
    \/ PushMessage
    \/ PushTeam
    \/ PushAbort
    \/ PushCommit
    \/ PushEnd

SpecCrash == InitCrash /\ [][NextCrash]_vars

----------------------------------------------------------------------------
(* Properties of the unit of work of the jobs (SpecCrash) *)

\* the step is a run failing at a team after other teams of the message
\* were handled
FailsAtLaterTeam ==
    /\ push.pc = "run"
    /\ push.cur # NoId
    /\ push.teams # {}
    /\ push.added # EmptyBag
    /\ push'.pc = "idle"

\* C36: when a run fails while it handles a later team, the delivery of
\* every team it has notified before is stored, and no player is notified
\* of the same message in a later run
C36_UnitOfWorkPerTeam ==
    [][/\ FailsAtLaterTeam => \A d \in BagToSet(push.added) : BagIn(d, deliveries')
       /\ \A p \in PlayerIds : \A m \in DOMAIN messages :
             CopiesIn(<<p, m>>, sent_push') <= 1]_vars

----------------------------------------------------------------------------
(* Properties of the thread a transition opens (Spec) *)

\* the step is the commit of the transitions job that stores the unlock of
\* (thread_id, team_id) for the trigger it has notified the team about
TransUnlocks(thread_id, team_id) ==
    /\ trans.pc = "run"
    /\ trans.cur # NoRow
    /\ trans.add
    /\ trans.cur.target_thread_id = thread_id
    /\ trans.cur.team_id = team_id
    /\ trans'.cur = NoRow

\* C37: once the transitions job has turned a trigger into an unlock and
\* notified the team, the target thread is visible to the team, whatever its
\* kind and with or without a start rule
C37_TransitionTargetVisible ==
    [][\A th \in Threads : \A team_id \in Teams :
          TransUnlocks(th, team_id) => ThreadVisible(th, team_id)']_vars

\* the same for a target that is LEAKED or has a start rule
C37_TransitionTargetVisibleLeakedOrRule ==
    [][\A th \in Threads : \A team_id \in Teams :
          (/\ TransUnlocks(th, team_id)
           /\ (Upper(threads[th].type) # "INTERACTIVE" \/ th \in WithConfig')) =>
             ThreadVisible(th, team_id)']_vars

----------------------------------------------------------------------------
(* SpecRace: the trigger block of dialogue_view, lookup and insert as
   separate steps, for players who open thread 1 at the same time, and the
   transitions job *)

\* node x carries a trigger_dialogue the trigger block goes on with: a target
\* key, a delay that is not negative, a target thread that exists and is not
\* the thread being read
HasTrigger(key, x) ==
    /\ messages[x].trigger_dialogue.thread_key # NoId
    /\ messages[x].trigger_dialogue.delay_minutes >= 0
    /\ messages[x].trigger_dialogue.thread_key \in Threads
    /\ messages[x].trigger_dialogue.thread_key # key

\* the rows r_ex selects: the triggers of (team, source message, target thread)
MatchingTriggers(team_id, m, thread_id) ==
    LET match == {r \in BagToSet(triggers) : /\ r.team_id = team_id
                                             /\ r.source_message_id = m
                                             /\ r.target_thread_id = thread_id}
    IN [r \in match |-> triggers[r]]

\* dialogue_view up to the trigger block: the walk, then the emitted nodes
\* the block has to look up
ViewOpen(p, key) ==
    /\ walk.pc = "idle"
    /\ views[p].pc \in {"idle", "failed"}
    /\ \E rows \in QueryOrders(p) :
        LET w == RunWalk(WalkStart(p, key, rows))
        IN views' = [views EXCEPT ![p] =
                        [pc |-> "scan",
                         todo |-> IF w.status = 200
                                  THEN SelectSeq(w.visible, LAMBDA x : HasTrigger(key, x))
                                  ELSE <<>>,
                         row |-> NoRow]]
    /\ UNCHANGED <<resp, consumed, now, messages, graph, team_progress, replies, visits, gate, walk,
                   triggers, schedVars>>

\* r_ex of the next node: scalar_one_or_none() raises on several rows (the
\* request ends in a 500), skips the node on one row, and on none the row to
\* insert is built; with no node left the response is rendered
ViewLookup(p) ==
    /\ views[p].pc = "scan"
    /\ views' = [views EXCEPT ![p] =
          IF views[p].todo = <<>> THEN ViewIdle
          ELSE LET m == Head(views[p].todo)
                   target == messages[m].trigger_dialogue.thread_key
                   found == BagCardinality(MatchingTriggers(Players[p].team_id, m, target))
               IN IF found > 1 THEN [ViewIdle EXCEPT !.pc = "failed"]
                  ELSE IF found = 1 THEN [@ EXCEPT !.todo = Tail(@)]
                  ELSE [@ EXCEPT !.pc = "add",
                                 !.row = [team_id |-> Players[p].team_id,
                                          source_message_id |-> m,
                                          target_thread_id |-> target,
                                          unlock_at |-> now + messages[m].trigger_dialogue.delay_minutes]]]
    /\ UNCHANGED <<resp, consumed, now, messages, graph, team_progress, replies, visits, gate, walk,
                   triggers, schedVars>>

\* db.add(DialogueTransitionTrigger(...)) and db.commit()
ViewInsert(p) ==
    /\ views[p].pc = "add"
    /\ triggers' = triggers (+) SetToBag({views[p].row})
    /\ views' = [views EXCEPT ![p] = [@ EXCEPT !.pc = "scan", !.todo = Tail(@), !.row = NoRow]]
    /\ UNCHANGED <<resp, consumed, now, messages, graph, team_progress, replies, visits, gate, walk,
                   schedVars>>

NextRace ==
    \/ Tick
    \/ \E p \in PlayerIds : ViewOpen(p, 1)
    \/ \E p \in PlayerIds : ViewLookup(p)
    \/ \E p \in PlayerIds : ViewInsert(p)
    \/ TransBegin
    \/ TransTrigger
    \/ TransCommit
    \/ TransEnd

SpecRace == Init /\ [][NextRace]_vars

----------------------------------------------------------------------------
(* Properties of concurrent readers of a thread (SpecRace, Spec) *)

\* the pending triggers of every (team, source message, target thread) are
\* at most one
OneTriggerPerTransition ==
    \A team_id \in Teams : \A m \in DOMAIN messages : \A th \in Threads :
        BagCardinality(MatchingTriggers(team_id, m, th)) <= 1

\* the step is a run of the transitions job that ends before its loop is over
TransFails ==
    /\ trans.pc = "run"
    /\ trans'.pc = "idle"
    /\ (trans.cur # NoRow \/ trans.rows # EmptyBag)

\* C38: when players of a team open a thread at the same time, every
\* (team, source message, target thread) has at most one pending trigger,
\* no later traversal fails on several matching triggers and no run of the
\* transitions job does
C38_OneTriggerUnderRace ==
    [][/\ OneTriggerPerTransition'
       /\ \A p \in PlayerIds : views'[p].pc # "failed"
       /\ ~TransFails]_vars

\* the transitions job gets through every trigger, duplicates included
C38_TransitionsJobSurvives == [][~TransFails]_vars

\* a traversal fails only on a transition with several pending triggers
C38_FailsOnlyOnDuplicates ==
    [][\A p \in PlayerIds :
          (views[p].pc # "failed" /\ views'[p].pc = "failed") => ~OneTriggerPerTransition]_vars

\* a traversal has failed on several matching triggers
C38_TraversalFailed == \E p \in PlayerIds : views[p].pc = "failed"

\* requests that run one after the other leave one trigger at most
C38_OneTriggerWhenSerial == OneTriggerPerTransition

----------------------------------------------------------------------------
(* Properties of the stored option targets (SpecAuthor) *)

\* the last call was a graph save or the deletion of one message, and it
\* went through
AuthoringDone ==
    /\ graph.op \in {"save", "delete_message"}
    /\ graph.out = "ok"

\* the target of the i-th option of message m is null or a message of the
\* thread of m
TargetStored(m, i) ==
    \/ messages[m].reply_options[i] = NoId
    \/ /\ messages[m].reply_options[i] \in DOMAIN messages
       /\ messages[messages[m].reply_options[i]].thread_id = messages[m].thread_id

\* C39: after a graph save or the deletion of a message, the target of every
\* stored reply option is null or the id of a message of the same thread
C39_OptionTargetsStored ==
    AuthoringDone =>
        \A m \in DOMAIN messages : \A i \in DOMAIN messages[m].reply_options :
            TargetStored(m, i)

\* the options of the nodes a save has created lead to null or to a message
\* of the thread: a client-local target never stays
C39_CreatedNodeTargetsStored ==
    (graph.op = "save" /\ graph.out = "ok") =>
        \A i \in DOMAIN graph.created :
            (graph.created[i] # NoId /\ graph.created[i] \in DOMAIN messages
             /\ graph.nodes[i].reply_options # <<>>
             /\ graph.nodes[i].reply_options[1].k = "new") =>
                TargetStored(graph.created[i], 1)

\* the deletion of a message has left an option that leads to it
C39_TargetOfDeletedMessage ==
    /\ graph.op = "delete_message"
    /\ graph.out = "ok"
    /\ \E m \in DOMAIN messages : \E i \in DOMAIN messages[m].reply_options :
          /\ messages[m].reply_options[i] \in graph.before
          /\ messages[m].reply_options[i] \notin DOMAIN messages

----------------------------------------------------------------------------
(* Properties of the path of a traversal (SpecWalk) *)

\* node n is the target of an option of node m
OptionOf(m, n) == \E i \in DOMAIN messages[m].reply_options : messages[m].reply_options[i] = n

====
